---- MODULE Spec2Model ----
(***************************************************************************)
(* Model of the cactus-client step scheduler (StepExecutionList), the      *)
(* progress tracker (ProgressTracker) and the execution engine that drains *)
(* the scheduler (execute_for_context, started by run_entrypoint next to   *)
(* the terminal UI task).                                                  *)
(*                                                                         *)
(* Instants are whole days counted as Python's date.toordinal() does, so   *)
(* that datetime(9999, 1, 1), the "far future" start value of              *)
(* time_until_next, is an ordinary instant of the model.  A duration is a  *)
(* difference of two instants.  An optional value (Python's None or a      *)
(* value) is a sequence of length 0 or 1.  A primacy is a Python int wider *)
(* than 31 bits (pop starts from 0xEFFFFFFF), kept as two 16 bit limbs     *)
(* <<hi, lo>> standing for hi * 65536 + lo.                                *)
(***************************************************************************)
EXTENDS Integers, Sequences, FiniteSets, TLC

VARIABLES
    items,                       \* StepExecutionList._items
    now,                         \* the wall clock read by utc_now()
    last,                        \* the latest scheduler call: its input and its return value
    pc,                          \* where execute_for_context stands
    next_step,                   \* the StepExecution popped by the engine (optional)
    phase,                       \* per step: "idle", "acting" (action in flight), "checking" (checks in flight)
    action_result,               \* what execute_action returned for next_step (optional)
    current_step_execution,      \* ProgressTracker.current_step_execution (optional)
    current_set,                 \* whether ProgressTracker.current_step_execution has been assigned yet
    step_execution_progress,     \* ProgressTracker.step_execution_progress
    step_results,                \* ProgressTracker.step_results
    execution_result,            \* the ExecutionResult returned by execute_for_context (optional)
    collaborator_exc,            \* the error raised by execute_action or execute_checks (optional)
    action_calls,                \* per step: number of execute_action invocations
    check_calls,                 \* per step: number of execute_checks invocations
    repeat_until_pass,           \* per step: Step.repeat_until_pass
    repeat_delay,                \* ExecutionContext.repeat_delay
    tui,                         \* the run_tui task: "running", "exited", "cancelled"
    entry,                       \* where run_entrypoint stands
    tui_finished_first,          \* history: the UI task finished while the execution task had not
    store,                       \* ResourceStore.store: resource kind -> list of StoredResource
    store_last,                  \* the latest ResourceStore call: its input, the store before, its return value
    target_resources,            \* the target list handed to discover_resource_plan
    plan_calls,                  \* the return values of the invocations of discover_resource_plan so far
    page_pc,                     \* where paginate_list_object_items stands
    start,                       \* paginate_list_object_items: start
    pages_requested,             \* paginate_list_object_items: pages_requested
    every_all_value,             \* paginate_list_object_items: every_all_value
    all_received_items,          \* paginate_list_object_items: all_received_items
    max_pages_requested,         \* paginate_list_object_items: max_pages_requested
    warnings,                    \* WarningTracker.warnings logged by the running (or latest) call
    responses,                   \* ResponseTracker.responses logged by the running (or latest) call
    server,                      \* what the CSIP-Aus server under test holds
    disc_last,                   \* the latest action_discovery call: its resources and what it went through
    annotations,                 \* ExecutionContext: the annotation records by StoredResourceId, as created
    annotations_last,            \* the latest resource_annotations call: its id and the record it returned
    evaluation,                  \* the latest evaluation of a finished run (optional)
    polling_window,              \* the latest calculate_wait_next_polling_window call (optional)
    endpoint_by_sub_alias,       \* NotificationsContext.endpoint_by_sub_alias
    notification_requests,       \* the requests the notification server received, in order
    notification_last            \* the latest call of a function of notifications.py and its outcome

vars == <<items, now, last, pc, next_step, phase, action_result, current_step_execution, current_set,
          step_execution_progress, step_results, execution_result, collaborator_exc, action_calls,
          check_calls,
          repeat_until_pass, repeat_delay, tui, entry, tui_finished_first,
          store, store_last, target_resources, plan_calls, page_pc, start, pages_requested,
          every_all_value, all_received_items, max_pages_requested, warnings, responses, server,
          disc_last, annotations, annotations_last, evaluation, polling_window,
          endpoint_by_sub_alias, notification_requests, notification_last>>

engineVars == <<pc, next_step, phase, action_result, current_step_execution, current_set,
                step_execution_progress, step_results, execution_result, collaborator_exc, action_calls,
                check_calls, repeat_until_pass, repeat_delay, tui, entry, tui_finished_first>>

schedulerVars == <<items, now, last>>

storeVars == <<store, store_last>>

planVars == <<target_resources, plan_calls>>

pageVars == <<page_pc, start, pages_requested, every_all_value, all_received_items, max_pages_requested>>

trackerVars == <<warnings, responses>>

discoveryVars == <<server, disc_last>>

notificationVars == <<endpoint_by_sub_alias, notification_requests, notification_last>>

contextVars == <<annotations, annotations_last, evaluation, polling_window, notificationVars>>

resourceVars == <<storeVars, planVars, pageVars, trackerVars, discoveryVars, contextVars>>

(***************************************************************************)
(* Bounds of the model.                                                    *)
(***************************************************************************)
MaxItems == 2        \* longest scheduler content explored by the scheduler specification
MaxOffset == 1       \* instants explored after BaseTime
NumSteps == 2        \* steps of the test procedure run by the engine
MaxRepeats == 1      \* actions ask for at most this many repeats in one run
MaxRetries == 1      \* checks of repeat_until_pass steps fail only while fewer checks than this have failed

(***************************************************************************)
(* Program constants.                                                      *)
(***************************************************************************)
BaseTime == 739253               \* date(2025, 1, 2).toordinal(): "now" of the scheduler test
FarFuture == 3651695             \* date(9999, 1, 1).toordinal(): start value of earliest_not_before
LowestPrimacyHi == 61439         \* 0xEFFF: high limb of 0xEFFFFFFF
LowestPrimacyLo == 65535         \* 0xFFFF: low limb of 0xEFFFFFFF

None == <<>>
Some(x) == <<x>>

LowestPrimacyInit == <<LowestPrimacyHi, LowestPrimacyLo>>

\* a record of one scheduler call, kept to state what the call returned
Call(op, t, before, result) == [op |-> op, now |-> t, before |-> before, result |-> result]

\* a < b on two-limb integers
PrimacyLess(a, b) == a[1] < b[1] \/ (a[1] = b[1] /\ a[2] < b[2])

Steps == 1..NumSteps

\* The instants the model draws "now" and not_before from: the days from BaseTime on, and the far
\* future start value of time_until_next with the day after it.
Times == (BaseTime..(BaseTime + MaxOffset)) \cup {FarFuture, FarFuture + 1}

\* The primacies the scheduler specification draws from: step positions, and the values around the
\* start value of pop's scan.
Primacies == {<<0, 0>>, <<0, 1>>, <<LowestPrimacyHi, LowestPrimacyLo - 1>>, LowestPrimacyInit}

StepExecution(source, primacy, repeat_number, not_before, attempts) ==
    [source |-> source, primacy |-> primacy, repeat_number |-> repeat_number,
     not_before |-> not_before, attempts |-> attempts]

ActionResult(repeat, not_before) == [repeat |-> repeat, not_before |-> not_before]

ActionResultDone == ActionResult(FALSE, None)

CheckResult(passed, description) == [passed |-> passed, description |-> description]

ExecutionResult(completed) == [completed |-> completed]

\* the StepExecutions the scheduler specification adds
SchedulerInputs ==
    {StepExecution(1, p, 0, nb, 0) : p \in Primacies, nb \in {None} \cup {Some(t) : t \in Times}}

(***************************************************************************)
(* StepExecutionList                                                       *)
(***************************************************************************)

\* the body of the for loop of time_until_next, from item i on: None of a return inside the loop
\* is reported as <<"return", 0>>, falling off the loop as <<"end", earliest_not_before>>
RECURSIVE TimeUntilNextScan(_, _, _)
TimeUntilNextScan(its, i, earliest_not_before) ==
    IF i > Len(its) THEN <<"end", earliest_not_before>>
    ELSE IF its[i].not_before = None THEN <<"return", 0>>
    ELSE IF its[i].not_before[1] < earliest_not_before
         THEN TimeUntilNextScan(its, i + 1, its[i].not_before[1])
         ELSE TimeUntilNextScan(its, i + 1, earliest_not_before)

\* a time_until_next that looks at the first item only
time_until_nextOfHead(its, t) ==
    IF Len(its) = 0 THEN None
    ELSE IF its[1].not_before = None THEN Some(0)
    ELSE IF its[1].not_before[1] <= t THEN Some(0)
    ELSE Some(its[1].not_before[1] - t)

time_until_next(its, t) ==
    IF Len(its) = 0 THEN None
    ELSE LET scan == TimeUntilNextScan(its, 1, FarFuture)
         IN IF scan[1] = "return" THEN Some(0)
            ELSE IF scan[2] <= t THEN Some(0)
            ELSE Some(scan[2] - t)

\* the for loop of pop without the skip of items whose not_before is still ahead
RECURSIVE PopScanNoGate(_, _, _, _, _)
PopScanNoGate(its, i, t, lowest, lowest_primacy) ==
    IF i > Len(its) THEN lowest
    ELSE IF PrimacyLess(its[i].primacy, lowest_primacy)
         THEN PopScanNoGate(its, i + 1, t, Some(its[i]), its[i].primacy)
         ELSE PopScanNoGate(its, i + 1, t, lowest, lowest_primacy)

\* the for loop of pop taking an item also when its primacy equals the lowest so far
RECURSIVE PopScanLastOfTies(_, _, _, _, _)
PopScanLastOfTies(its, i, t, lowest, lowest_primacy) ==
    IF i > Len(its) THEN lowest
    ELSE IF its[i].not_before # None /\ its[i].not_before[1] > t
         THEN PopScanLastOfTies(its, i + 1, t, lowest, lowest_primacy)
    ELSE IF PrimacyLess(its[i].primacy, lowest_primacy) \/ (lowest # None /\ its[i].primacy = lowest_primacy)
         THEN PopScanLastOfTies(its, i + 1, t, Some(its[i]), its[i].primacy)
         ELSE PopScanLastOfTies(its, i + 1, t, lowest, lowest_primacy)

\* the for loop of pop, from item i on; the result is the final value of lowest
RECURSIVE PopScan(_, _, _, _, _)
PopScan(its, i, t, lowest, lowest_primacy) ==
    IF i > Len(its) THEN lowest
    ELSE IF its[i].not_before # None /\ its[i].not_before[1] > t
         THEN PopScan(its, i + 1, t, lowest, lowest_primacy)
    ELSE IF PrimacyLess(its[i].primacy, lowest_primacy)
         THEN PopScan(its, i + 1, t, Some(its[i]), its[i].primacy)
         ELSE PopScan(its, i + 1, t, lowest, lowest_primacy)

\* list.remove(x): drops the first element equal to x
RECURSIVE ListRemove(_, _)
ListRemove(its, x) ==
    IF its = <<>> THEN <<>>
    ELSE IF Head(its) = x THEN Tail(its)
    ELSE <<Head(its)>> \o ListRemove(Tail(its), x)

\* pop(now): the returned value and the new _items
pop(its, t) ==
    LET lowest == PopScan(its, 1, t, None, LowestPrimacyInit)
    IN [result |-> lowest,
        items |-> IF lowest # None THEN ListRemove(its, lowest[1]) ELSE its]

\* peek(now): what pop(now) would return, _items left as they are
peek(its, t) == PopScan(its, 1, t, None, LowestPrimacyInit)

\* add that inserts at the front of _items
addFront(its, se) == <<se>> \o its

add(its, se) == Append(its, se)

(***************************************************************************)
(* The scheduler on its own: any population, any instant.                  *)
(***************************************************************************)
SchedAdd ==
    /\ Len(items) < MaxItems
    /\ \E se \in SchedulerInputs :
        /\ items' = add(items, se)
        /\ last' = Call("add", now, items, None)
    /\ UNCHANGED <<now, engineVars, resourceVars>>

SchedPop ==
    \E t \in Times :
        /\ now' = t
        /\ items' = pop(items, t).items
        /\ last' = Call("pop", t, items, pop(items, t).result)
        /\ UNCHANGED <<engineVars, resourceVars>>

SchedPeek ==
    \E t \in Times :
        /\ now' = t
        /\ last' = Call("peek", t, items, peek(items, t))
        /\ UNCHANGED <<items, engineVars, resourceVars>>

SchedTimeUntilNext ==
    \E t \in Times :
        /\ now' = t
        /\ last' = Call("time_until_next", t, items, time_until_next(items, t))
        /\ UNCHANGED <<items, engineVars, resourceVars>>

EngineIdleInit ==
    /\ pc = "off"
    /\ next_step = None
    /\ phase = [s \in Steps |-> "idle"]
    /\ action_result = None
    /\ current_step_execution = None
    /\ current_set = FALSE
    /\ step_execution_progress = <<>>
    /\ step_results = <<>>
    /\ execution_result = None
    /\ collaborator_exc = None
    /\ action_calls = [s \in Steps |-> 0]
    /\ check_calls = [s \in Steps |-> 0]
    /\ repeat_until_pass = [s \in Steps |-> FALSE]
    /\ repeat_delay = 0
    /\ tui = "running"
    /\ entry = "off"
    /\ tui_finished_first = FALSE

\* no annotation record created, no run evaluated, no polling window calculated, no
\* notification webhook created
ContextIdleInit ==
    /\ annotations = <<>>
    /\ annotations_last = None
    /\ evaluation = None
    /\ polling_window = None
    /\ endpoint_by_sub_alias = <<>>
    /\ notification_requests = <<>>
    /\ notification_last = <<>>

\* the resource store, the discovery plan, pagination and the server before any of them is used
ResourceIdleInit ==
    /\ store = [k \in {} |-> <<>>]
    /\ store_last = None
    /\ target_resources = <<>>
    /\ plan_calls = <<>>
    /\ page_pc = "off"
    /\ start = 0
    /\ pages_requested = 0
    /\ every_all_value = <<>>
    /\ all_received_items = <<>>
    /\ max_pages_requested = 0
    /\ warnings = <<>>
    /\ responses = <<>>
    /\ server = [devices |-> <<>>, version |-> 0]
    /\ disc_last = None
    /\ ContextIdleInit

SchedInit ==
    /\ items = <<>>
    /\ now = BaseTime
    /\ last = Call("init", BaseTime, <<>>, None)
    /\ EngineIdleInit
    /\ ResourceIdleInit

SchedNext == SchedAdd \/ SchedPop \/ SchedPeek \/ SchedTimeUntilNext

SchedSpec == SchedInit /\ [][SchedNext]_vars

(***************************************************************************)
(* ProgressTracker                                                         *)
(***************************************************************************)
\* the keyword parameters of the generated __init__ of the two dataclasses (created_at is init=False)
StepExecutionProgressFields == {"step_execution", "action_result", "check_result", "exc"}

StepResultFields == {"step", "failure_result", "exc"}

\* a dataclass constructor called with keyword arguments kw: the new object, or none when __init__
\* rejects the keywords with a TypeError
NewDataclass(fields, kw) == IF DOMAIN kw = fields THEN Some(kw) ELSE None

\* log_current_step_execution: the new current_step_execution
log_current_step_execution(step) == Some(step)

\* log_step_execution_completed: the new current_step_execution and step_execution_progress
log_step_execution_completed(progress, s, ar, cr) ==
    LET p == NewDataclass(StepExecutionProgressFields,
                          [step_execution |-> s, action_result |-> Some(ar), check_result |-> Some(cr),
                           exc |-> None])
    IN [raised |-> p = None,
        current_step_execution |-> None,
        step_execution_progress |-> IF p = None THEN progress ELSE Append(progress, p[1])]

\* log_step_execution_exception: whether it raised, and the new step_execution_progress and step_results
log_step_execution_exception(progress, results, step, exc) ==
    LET p == NewDataclass(StepExecutionProgressFields,
                          [step |-> step, action_result |-> None, check_result |-> None, exc |-> Some(exc)])
        r == NewDataclass(StepResultFields,
                          [step |-> step.source, failure_result |-> None, exc |-> Some(exc)])
    IN IF p = None
       THEN [raised |-> TRUE, step_execution_progress |-> progress, step_results |-> results]
       ELSE IF r = None
       THEN [raised |-> TRUE, step_execution_progress |-> Append(progress, p[1]), step_results |-> results]
       ELSE [raised |-> FALSE, step_execution_progress |-> Append(progress, p[1]),
             step_results |-> Append(results, r[1])]

\* log_final_step_execution that keeps the check result as the failure whatever it says
log_final_step_executionAlwaysFailure(results, step, cr) ==
    Append(results, [step |-> step.source, failure_result |-> Some(cr), exc |-> None])

\* log_final_step_execution that never keeps the check result
log_final_step_executionNeverFailure(results, step, cr) ==
    Append(results, [step |-> step.source, failure_result |-> None, exc |-> None])

\* log_final_step_execution that appends nothing
log_final_step_executionDropped(results, step, cr) == results

\* log_final_step_execution: the new step_results
log_final_step_execution(results, step, cr) ==
    LET r == NewDataclass(StepResultFields,
                          [step |-> step.source,
                           failure_result |-> IF cr.passed THEN None ELSE Some(cr),
                           exc |-> None])
    IN IF r = None THEN results ELSE Append(results, r[1])

\* StepExecutionProgress.is_success
is_success(p) ==
    /\ p.exc = None
    /\ p.action_result # None
    /\ p.check_result # None
    /\ p.check_result[1].passed

\* StepResult.is_passed
is_passed(r) == r.failure_result = None /\ r.exc = None

(***************************************************************************)
(* The engine: execute_for_context                                         *)
(***************************************************************************)
\* the attempts logged so far whose action asked for a repeat
RepeatsSoFar ==
    Cardinality({i \in DOMAIN step_execution_progress :
                    step_execution_progress[i].action_result[1].repeat})

\* the attempts logged so far whose checks failed
FailuresSoFar ==
    Cardinality({i \in DOMAIN step_execution_progress :
                    ~step_execution_progress[i].check_result[1].passed})

\* what the action collaborator may return at instant t: done, or a repeat at once or an instant later
ActionOutcomes(t) ==
    {ActionResultDone} \cup
    (IF RepeatsSoFar < MaxRepeats
     THEN {ActionResult(TRUE, nb) : nb \in {None, Some(t + 1)}}
     ELSE {})

\* what the check collaborator may return for a step execution
CheckOutcomes(se) ==
    {CheckResult(TRUE, None)} \cup
    (IF repeat_until_pass[se.source] => FailuresSoFar < MaxRetries
     THEN {CheckResult(FALSE, Some("failed"))}
     ELSE {})

\* an engine that starts the next step without awaiting the checks in flight
EngineAtLoopTopUnawaited == pc \in {"loop", "checking"} /\ entry = "waiting"

\* the engine starts the next step only from the top of its loop, with no call in flight
EngineAtLoopTop == pc = "loop" /\ entry = "waiting"

\* the step execution re-added after an attempt whose action asked for a repeat and whose checks passed
RepeatOf(se, ar) ==
    [se EXCEPT !.repeat_number = @ + 1, !.attempts = @ + 1, !.not_before = ar.not_before]

\* the step execution re-added after failed checks of a repeat_until_pass step
RetryOf(se, t, delay) ==
    [se EXCEPT !.attempts = @ + 1, !.not_before = Some(t + delay)]

\* what the engine does with a completed attempt: "repeat", "retry", "pass" or "fail"
Verdict(ar, cr, rup) ==
    IF cr.passed
    THEN (IF ar.repeat THEN "repeat" ELSE "pass")
    ELSE (IF rup THEN "retry" ELSE "fail")

\* an engine that goes on with its loop after a final failure
AfterVerdictContinue(v) == "loop"

\* where the engine goes after a completed attempt
AfterVerdict(v) == IF v = "fail" THEN "done" ELSE "loop"

EngineFinish ==
    /\ EngineAtLoopTop
    /\ time_until_next(items, now) = None
    /\ last' = Call("time_until_next", now, items, None)
    /\ execution_result' = Some(ExecutionResult(TRUE))
    /\ pc' = "done"
    /\ UNCHANGED <<resourceVars, items, now, next_step, phase, action_result, current_step_execution, current_set,
                   step_execution_progress, step_results, collaborator_exc, action_calls, check_calls,
                   repeat_until_pass, repeat_delay, tui, entry, tui_finished_first>>

EngineSleep ==
    /\ EngineAtLoopTop
    /\ time_until_next(items, now) # None
    /\ time_until_next(items, now)[1] > 0
    /\ last' = Call("time_until_next", now, items, time_until_next(items, now))
    /\ now' = now + time_until_next(items, now)[1]
    /\ UNCHANGED <<resourceVars, items, pc, next_step, phase, action_result, current_step_execution, current_set,
                   step_execution_progress, step_results, execution_result, collaborator_exc,
                   action_calls, check_calls, repeat_until_pass, repeat_delay, tui, entry, tui_finished_first>>

EnginePop ==
    /\ EngineAtLoopTop
    /\ time_until_next(items, now) = Some(0)
    /\ pop(items, now).result # None
    /\ LET se == pop(items, now).result[1]
       IN /\ items' = pop(items, now).items
          /\ last' = Call("pop", now, items, Some(se))
          /\ next_step' = Some(se)
          /\ current_step_execution' = log_current_step_execution(se)
          /\ current_set' = TRUE
          /\ phase' = [phase EXCEPT ![se.source] = "acting"]
          /\ action_calls' = [action_calls EXCEPT ![se.source] = @ + 1]
          /\ action_result' = None
          /\ pc' = "acting"
    /\ UNCHANGED <<resourceVars, now, step_execution_progress, step_results, execution_result, collaborator_exc,
                   check_calls, repeat_until_pass, repeat_delay, tui, entry, tui_finished_first>>

ActionReturns ==
    /\ pc = "acting"
    /\ entry = "waiting"
    /\ \E ar \in ActionOutcomes(now) :
        /\ action_result' = Some(ar)
        /\ phase' = [phase EXCEPT ![next_step[1].source] = "checking"]
        /\ check_calls' = [check_calls EXCEPT ![next_step[1].source] = @ + 1]
        /\ pc' = "checking"
    /\ UNCHANGED <<resourceVars, items, now, last, next_step, current_step_execution, current_set,
                   step_execution_progress, step_results, execution_result, collaborator_exc,
                   action_calls, repeat_until_pass, repeat_delay, tui, entry, tui_finished_first>>

\* the except branch of the engine: the error is logged and the run is given up
Abort(stage) ==
    LET logged == log_step_execution_exception(step_execution_progress, step_results, next_step[1],
                                               "CactusClientException")
    IN /\ collaborator_exc' = Some([step |-> next_step[1].source, stage |-> stage])
       /\ step_execution_progress' = logged.step_execution_progress
       /\ step_results' = logged.step_results
       /\ phase' = [phase EXCEPT ![next_step[1].source] = "idle"]
       /\ IF logged.raised
          THEN pc' = "raised" /\ execution_result' = None
          ELSE pc' = "done" /\ execution_result' = Some(ExecutionResult(FALSE))
       /\ UNCHANGED <<resourceVars, items, now, last, next_step, action_result, current_step_execution, current_set,
                      action_calls, check_calls, repeat_until_pass, repeat_delay, tui, entry, tui_finished_first>>

ActionRaises ==
    /\ pc = "acting"
    /\ entry = "waiting"
    /\ Abort("action")

CheckRaises ==
    /\ pc = "checking"
    /\ entry = "waiting"
    /\ Abort("check")

\* checks that record a final result for every attempt that is not a repeat asked by the action
CheckReturnsRecordsRetries ==
    /\ pc = "checking"
    /\ entry = "waiting"
    /\ \E cr \in CheckOutcomes(next_step[1]) :
        LET se == next_step[1]
            ar == action_result[1]
            logged == log_step_execution_completed(step_execution_progress, se, ar, cr)
            v == Verdict(ar, cr, repeat_until_pass[se.source])
        IN /\ current_step_execution' = logged.current_step_execution
           /\ step_execution_progress' = logged.step_execution_progress
           /\ phase' = [phase EXCEPT ![se.source] = "idle"]
           /\ items' = IF v = "repeat" THEN add(items, RepeatOf(se, ar))
                       ELSE IF v = "retry" THEN add(items, RetryOf(se, now, repeat_delay))
                       ELSE items
           /\ step_results' = IF v \in {"pass", "fail", "retry"}
                              THEN log_final_step_execution(step_results, se, cr)
                              ELSE step_results
           /\ pc' = AfterVerdict(v)
           /\ execution_result' = IF AfterVerdict(v) = "done" THEN Some(ExecutionResult(TRUE))
                                  ELSE execution_result
    /\ next_step' = None
    /\ UNCHANGED <<resourceVars, now, last, action_result, current_set, collaborator_exc, action_calls, check_calls,
                   repeat_until_pass, repeat_delay, tui, entry, tui_finished_first>>

CheckReturns ==
    /\ pc = "checking"
    /\ entry = "waiting"
    /\ \E cr \in CheckOutcomes(next_step[1]) :
        LET se == next_step[1]
            ar == action_result[1]
            logged == log_step_execution_completed(step_execution_progress, se, ar, cr)
            v == Verdict(ar, cr, repeat_until_pass[se.source])
        IN /\ current_step_execution' = logged.current_step_execution
           /\ step_execution_progress' = logged.step_execution_progress
           /\ phase' = [phase EXCEPT ![se.source] = "idle"]
           /\ items' = IF v = "repeat" THEN add(items, RepeatOf(se, ar))
                       ELSE IF v = "retry" THEN add(items, RetryOf(se, now, repeat_delay))
                       ELSE items
           /\ step_results' = IF v \in {"pass", "fail"}
                              THEN log_final_step_execution(step_results, se, cr)
                              ELSE step_results
           /\ pc' = AfterVerdict(v)
           /\ execution_result' = IF AfterVerdict(v) = "done" THEN Some(ExecutionResult(TRUE))
                                  ELSE execution_result
    /\ next_step' = None
    /\ UNCHANGED <<resourceVars, now, last, action_result, current_set, collaborator_exc, action_calls, check_calls,
                   repeat_until_pass, repeat_delay, tui, entry, tui_finished_first>>

(***************************************************************************)
(* run_entrypoint and the terminal UI task                                 *)
(***************************************************************************)
\* one frame of run_tui: reads the tracker (render_tui) and changes nothing
TuiRefresh ==
    /\ entry = "waiting"
    /\ tui = "running"
    /\ current_set
    /\ UNCHANGED <<resourceVars, items, now, last, pc, next_step, phase, action_result, current_step_execution,
                   current_set, step_execution_progress, step_results, execution_result,
                   collaborator_exc, action_calls, check_calls, repeat_until_pass, repeat_delay, tui,
                   entry, tui_finished_first>>

\* an unhandled exception while rendering ends the loop of run_tui
TuiExit ==
    /\ entry = "waiting"
    /\ tui = "running"
    /\ tui' = "exited"
    /\ tui_finished_first' = (pc \notin {"done", "raised"})
    /\ UNCHANGED <<resourceVars, items, now, last, pc, next_step, phase, action_result, current_step_execution,
                   current_set, step_execution_progress, step_results, execution_result,
                   collaborator_exc, action_calls, check_calls, repeat_until_pass, repeat_delay,
                   entry>>

\* a run_entrypoint that raises whenever the UI task is among the finished ones
EntrypointWakesUiDecides ==
    /\ entry = "waiting"
    /\ pc \in {"done", "raised"} \/ tui = "exited"
    /\ IF tui = "exited"
       THEN entry' = "ui_exited" /\ tui' = tui
       ELSE /\ tui' = "cancelled"
            /\ entry' = IF pc = "done" THEN "reported" ELSE "raised"
    /\ UNCHANGED <<resourceVars, items, now, last, pc, next_step, phase, action_result, current_step_execution,
                   current_set, step_execution_progress, step_results, execution_result,
                   collaborator_exc, action_calls, check_calls, repeat_until_pass, repeat_delay,
                   tui_finished_first>>

\* asyncio.wait(FIRST_COMPLETED) returns
EntrypointWakes ==
    /\ entry = "waiting"
    /\ pc \in {"done", "raised"} \/ tui = "exited"
    /\ IF pc \notin {"done", "raised"}
       THEN entry' = "ui_exited" /\ tui' = tui
       ELSE /\ tui' = IF tui = "running" THEN "cancelled" ELSE tui
            /\ entry' = IF pc = "done" THEN "reported" ELSE "raised"
    /\ UNCHANGED <<resourceVars, items, now, last, pc, next_step, phase, action_result, current_step_execution,
                   current_set, step_execution_progress, step_results, execution_result,
                   collaborator_exc, action_calls, check_calls, repeat_until_pass, repeat_delay,
                   tui_finished_first>>

\* the scheduler as build_execution_context leaves it: one execution per step, primacy by position
InitialSteps == [i \in Steps |-> StepExecution(i, <<0, i - 1>>, 0, None, 0)]

Init ==
    /\ items = InitialSteps
    /\ now = BaseTime
    /\ last = Call("init", BaseTime, <<>>, None)
    /\ pc = "loop"
    /\ next_step = None
    /\ phase = [s \in Steps |-> "idle"]
    /\ action_result = None
    /\ current_step_execution = None
    /\ current_set = FALSE
    /\ step_execution_progress = <<>>
    /\ step_results = <<>>
    /\ execution_result = None
    /\ collaborator_exc = None
    /\ action_calls = [s \in Steps |-> 0]
    /\ check_calls = [s \in Steps |-> 0]
    /\ repeat_until_pass \in [Steps -> BOOLEAN]
    /\ repeat_delay \in {0, 1}
    /\ tui = "running"
    /\ entry = "waiting"
    /\ tui_finished_first = FALSE
    /\ ResourceIdleInit

Next ==
    \/ EngineFinish
    \/ EngineSleep
    \/ EnginePop
    \/ ActionReturns
    \/ ActionRaises
    \/ CheckReturns
    \/ CheckRaises
    \/ TuiRefresh
    \/ TuiExit
    \/ EntrypointWakes

Spec == Init /\ [][Next]_vars


(***************************************************************************)
(* Scheduler claims                                                        *)
(***************************************************************************)
Elems(its) == {its[i] : i \in 1..Len(its)}

\* eligible at t: not_before unset or not later than t
Eligible(se, t) == se.not_before = None \/ se.not_before[1] <= t

EligibleAt(its, t) == {se \in Elems(its) : Eligible(se, t)}

\* C1: pop(now) never returns a StepExecution whose not_before is set and later than now, and the
\* item it returns was in the scheduler and has the minimum primacy among the items eligible at now.
PopReturnsEligibleMinimum ==
    (last.op = "pop" /\ last.result # None) =>
        LET r == last.result[1]
        IN /\ r \in Elems(last.before)
           /\ ~(r.not_before # None /\ r.not_before[1] > last.now)
           /\ \A e \in EligibleAt(last.before, last.now) : ~PrimacyLess(e.primacy, r.primacy)

\* C1 witness: pop returned an item while a lower-primacy item was still gated by its not_before
PopSkippedGatedItem ==
    /\ last.op = "pop"
    /\ last.result # None
    /\ \E e \in Elems(last.before) :
        /\ ~Eligible(e, last.now)
        /\ PrimacyLess(e.primacy, last.result[1].primacy)

\* C2: for every scheduler content and every primacy, pop(now) returns none only when no item is
\* eligible at now; whenever time_until_next(now) is zero, pop(now) returns an item.
PopReturnsNoneOnlyWhenNothingEligible ==
    (last.op = "pop" /\ last.result = None) =>
        /\ EligibleAt(last.before, last.now) = {}
        /\ time_until_next(last.before, last.now) # Some(0)

\* the least element of a non-empty set of integers
MinOf(S) == CHOOSE m \in S : \A x \in S : m <= x

\* C3: time_until_next(now) returns none iff the scheduler is empty, zero iff some item is eligible
\* at now, and otherwise the minimum over all items of (not_before - now), which is strictly
\* positive; it is never negative and never changes the scheduler contents.
TimeUntilNextContract ==
    (last.op = "time_until_next") =>
        /\ (last.result = None) <=> (last.before = <<>>)
        /\ (last.result = Some(0)) <=> (EligibleAt(last.before, last.now) # {})
        /\ (last.before # <<>> /\ EligibleAt(last.before, last.now) = {}) =>
               /\ last.result = Some(MinOf({e.not_before[1] - last.now : e \in Elems(last.before)}))
               /\ last.result[1] > 0
        /\ (last.result # None) => last.result[1] >= 0
        /\ items = last.before

(***************************************************************************)
(* Engine claims                                                           *)
(***************************************************************************)
HasResult(s) == \E i \in DOMAIN step_results : step_results[i].step = s

\* some step has been recorded as finally failed by its checks
FinalFailure == \E i \in DOMAIN step_results : step_results[i].failure_result # None

\* the logged attempts of step s, in log order
CompletionsOf(s) ==
    SelectSeq(step_execution_progress, LAMBDA p : p.step_execution.source = s)

\* this step of the engine logs a completed attempt whose checks passed / failed
LogsPassedAttempt ==
    /\ Len(step_execution_progress') = Len(step_execution_progress) + 1
    /\ step_execution_progress'[Len(step_execution_progress')].check_result[1].passed

LogsFailedAttempt ==
    /\ Len(step_execution_progress') = Len(step_execution_progress) + 1
    /\ ~step_execution_progress'[Len(step_execution_progress')].check_result[1].passed

\* C4 as stated: when the action returns repeat = true the engine re-adds the step with not_before
\* set to the returned value and its repeat/attempt counters incremented, and it does not invoke
\* the check collaborator for that attempt.
RepeatReAddsWithoutChecks ==
    [][(pc = "acting" /\ action_result' # None /\ action_result'[1].repeat) =>
          /\ items' = Append(items, [next_step[1] EXCEPT !.repeat_number = @ + 1, !.attempts = @ + 1,
                                                        !.not_before = action_result'[1].not_before])
          /\ check_calls' = check_calls]_vars

\* C4 amended: when the action returns repeat = true the engine invokes the check collaborator for
\* that attempt, and when those checks pass it re-adds the step at the end of the scheduler with
\* not_before set to the returned value and its repeat/attempt counters incremented, recording no
\* final result.
RepeatReAddsAfterChecks ==
    [][/\ (pc = "acting" /\ action_result' # None /\ action_result'[1].repeat) =>
              /\ pc' = "checking"
              /\ check_calls' = [check_calls EXCEPT ![next_step[1].source] = @ + 1]
              /\ items' = items
       /\ (pc = "checking" /\ action_result[1].repeat /\ LogsPassedAttempt) =>
              /\ items' = Append(items, [next_step[1] EXCEPT !.repeat_number = @ + 1,
                                                            !.attempts = @ + 1,
                                                            !.not_before = action_result[1].not_before])
              /\ step_results' = step_results
              /\ pc' = "loop"]_vars

\* C4 witness: a step waits in the scheduler for its repeat, at the instant its action asked for,
\* after an attempt whose checks were invoked
RepeatedStepQueued ==
    \E i \in DOMAIN items :
        /\ items[i].repeat_number = 1
        /\ items[i].attempts = 1
        /\ items[i].not_before # None
        /\ check_calls[items[i].source] = 1
        /\ Len(items) > 1

\* the repeat_until_pass step s has its final result after checks that failed exactly once, none of
\* its actions having asked for a repeat
FailedOnceThenPassed(s) ==
    /\ repeat_until_pass[s]
    /\ HasResult(s)
    /\ collaborator_exc = None
    /\ Len(SelectSeq(CompletionsOf(s), LAMBDA p : ~is_success(p))) = 1
    /\ Len(SelectSeq(CompletionsOf(s), LAMBDA p : p.action_result[1].repeat)) = 0

\* C5: a repeat_until_pass step whose check fails exactly once and then passes is re-enqueued with
\* its attempt counter incremented after the failure and reaches a final passed result after
\* exactly 2 action/check invocation pairs; the failure is in the progress log of completions and
\* not in the final result of the step.
RepeatUntilPassSecondAttempt ==
    /\ [](\A s \in Steps : FailedOnceThenPassed(s) =>
            /\ action_calls[s] = 2
            /\ check_calls[s] = 2
            /\ Len(CompletionsOf(s)) = 2
            /\ ~is_success(CompletionsOf(s)[1])
            /\ CompletionsOf(s)[1].step_execution.attempts = 0
            /\ is_success(CompletionsOf(s)[2])
            /\ CompletionsOf(s)[2].step_execution.attempts = 1
            /\ \A i \in DOMAIN step_results :
                  step_results[i].step = s =>
                      is_passed(step_results[i]) /\ step_results[i].failure_result = None)
    /\ [][(pc = "checking" /\ repeat_until_pass[next_step[1].source] /\ LogsFailedAttempt) =>
              /\ items' = Append(items, [next_step[1] EXCEPT !.attempts = @ + 1,
                                                            !.not_before = Some(now + repeat_delay)])
              /\ step_results' = step_results]_vars

\* C5 witness: some repeat_until_pass step passed at its second attempt
SecondAttemptPassed == \E s \in Steps : FailedOnceThenPassed(s)

\* C6: when checks fail and no retry applies (the step is not repeat_until_pass) the engine records
\* the final result of the step as failed, invokes no action or check for the StepExecutions still
\* in the scheduler, which end the run with no result, and returns completed = true.
FailureStopsEarly ==
    /\ [][(pc = "checking" /\ ~repeat_until_pass[next_step[1].source] /\ LogsFailedAttempt) =>
              /\ Len(step_results') = Len(step_results) + 1
              /\ step_results'[Len(step_results')].step = next_step[1].source
              /\ step_results'[Len(step_results')].failure_result # None
              /\ ~is_passed(step_results'[Len(step_results')])
              /\ execution_result' = Some(ExecutionResult(TRUE))
              /\ pc' = "done"]_vars
    /\ [](FinalFailure =>
              /\ pc = "done"
              /\ execution_result = Some(ExecutionResult(TRUE))
              /\ \A s \in Steps : phase[s] = "idle"
              /\ \A i \in DOMAIN items : ~HasResult(items[i].source))
    /\ [][FinalFailure => UNCHANGED <<action_calls, check_calls>>]_vars

\* C6 witness: the run was reported after a final failure that left steps in the scheduler
StoppedEarlyWithStepsLeft ==
    /\ FinalFailure
    /\ Len(items) > 0
    /\ execution_result = Some(ExecutionResult(TRUE))

\* C7 as stated: after a step has been recorded as finally failed, the StepExecutions already in the
\* scheduler are still popped and executed before the run ends.
QueueDrainedAfterFailure == (FinalFailure /\ pc = "done") => items = <<>>

\* C7 amended: after a step has been recorded as finally failed, no StepExecution still in the
\* scheduler is popped or executed; the scheduler keeps its content to the end of the run.
QueueFrozenAfterFailure ==
    [][FinalFailure => (items' = items /\ phase' = phase /\ next_step' = None /\ pc' = "done")]_vars

\* C7 witness: run_entrypoint has collected the result of a run that failed with steps still queued
ReportedWithQueuedSteps ==
    /\ FinalFailure
    /\ entry = "reported"
    /\ items # <<>>

\* C8: if the action or the check collaborator raises for a step, the run is aborted at once: no
\* call is in flight afterwards, the step's result is recorded as not passed with the exception
\* attached, steps that had not run have no result, the ExecutionResult has completed = false, and
\* an error of the action leaves the checks of that attempt uninvoked.
AbortRecordsException ==
    collaborator_exc # None =>
        /\ execution_result = Some(ExecutionResult(FALSE))
        /\ \A s \in Steps : phase[s] = "idle"
        /\ \E i \in DOMAIN step_results :
              /\ step_results[i].step = collaborator_exc[1].step
              /\ step_results[i].exc # None
              /\ ~is_passed(step_results[i])
        /\ \A i \in DOMAIN items : ~HasResult(items[i].source)
        /\ collaborator_exc[1].stage = "action" =>
               check_calls[collaborator_exc[1].step] = Len(CompletionsOf(collaborator_exc[1].step))

RunEnded == pc \in {"done", "raised"}

Aborted == collaborator_exc # None /\ execution_result # Some(ExecutionResult(TRUE))

\* C9 as stated: a run ends in exactly one of Completed, in which every step has been evaluated and
\* has a recorded pass/fail result, or Aborted, in which some step raised an error.
CompletedMeansAllEvaluated ==
    RunEnded =>
        LET completed == collaborator_exc = None /\ \A s \in Steps : HasResult(s)
        IN (completed /\ ~Aborted) \/ (~completed /\ Aborted)

\* C9 amended: a run ends in exactly one of Completed (completed = true is returned and no
\* collaborator raised), in which every step has a recorded pass/fail result unless some step
\* finally failed, the steps without a result then being the ones left in the scheduler, or
\* Aborted, in which some step raised an error before completing its checks.
CompletedOrAborted ==
    RunEnded =>
        LET completed ==
                /\ collaborator_exc = None
                /\ execution_result = Some(ExecutionResult(TRUE))
                /\ (\A s \in Steps : HasResult(s)) \/ FinalFailure
                /\ \A s \in Steps :
                      ~HasResult(s) => \E i \in DOMAIN items : items[i].source = s
        IN (completed /\ ~Aborted) \/ (~completed /\ Aborted)

\* C9 witness: a run returned completed = true with a step that has no result
CompletedWithUnevaluatedStep ==
    /\ pc = "done"
    /\ collaborator_exc = None
    /\ \E s \in Steps : ~HasResult(s)

Busy == {s \in Steps : phase[s] \in {"acting", "checking"}}

\* C10: at most one StepExecution is acting or checking; a step is popped only when no call of
\* another step is in flight, and checks are invoked only after the step's own action returned.
SingleStream ==
    /\ [](Cardinality(Busy) <= 1)
    /\ [][\A s \in Steps :
              /\ (phase[s] = "idle" /\ phase'[s] = "acting") => Busy = {}
              /\ (phase[s] # "checking" /\ phase'[s] = "checking") =>
                     (phase[s] = "acting" /\ action_result' # None)]_vars

\* C10 witness: the checks of one step are in flight while another step is ready in the scheduler
\* and the UI task is running
CheckingWhileAnotherIsReady ==
    /\ \E s \in Steps : phase[s] = "checking"
    /\ EligibleAt(items, now) # {}
    /\ tui = "running"


(***************************************************************************)
(* ResourceStore                                                           *)
(*                                                                         *)
(* A href is a path, kept as the sequence of its segments: <<"edev", 1>>   *)
(* stands for "/edev/1" and <<>> for the empty string.  An optional href   *)
(* is None or Some(path), so that a missing href and an empty one differ.  *)
(***************************************************************************)
MaxBucket == 2       \* longest bucket built by the store specification

\* a sep2 Resource: its href, what else it carries, and its links to child resources by kind
Resource(href, body, links) == [href |-> href, body |-> body, links |-> links]

NoLinks == [k \in {} |-> None]

StoredResourceOfParentKind(created_at, type, parent, resource) ==
    [created_at |-> created_at, type |-> IF parent = None THEN type ELSE parent[1].type, parent |-> parent,
     resource |-> resource]

StoredResource(created_at, type, parent, resource) ==
    [created_at |-> created_at, type |-> type, parent |-> parent, resource |-> resource]

EmptyStore == [k \in {} |-> <<>>]

clear(st) == EmptyStore

clear_resourceAll(st, type) == clear(st)

clear_resource(st, type) == [k \in (DOMAIN st) \ {type} |-> st[k]]

get(st, type) == IF type \in DOMAIN st THEN st[type] ELSE <<>>

set_resourceKeeping(st, t, type, parent, resource) ==
    LET new_resource == StoredResource(t, type, parent, resource)
    IN [result |-> new_resource,
        store |-> [k \in (DOMAIN st) \cup {type} |->
                      IF k = type THEN Append(get(st, type), new_resource) ELSE st[k]]]

set_resource(st, t, type, parent, resource) ==
    LET new_resource == StoredResource(t, type, parent, resource)
    IN [result |-> new_resource,
        store |-> [k \in (DOMAIN st) \cup {type} |-> IF k = type THEN <<new_resource>> ELSE st[k]]]

append_resourceFirst(st, t, type, parent, resource) ==
    LET new_resource == StoredResource(t, type, parent, resource)
    IN [result |-> new_resource,
        store |-> [k \in (DOMAIN st) \cup {type} |->
                      IF k = type THEN <<new_resource>> \o get(st, type) ELSE st[k]]]

append_resource(st, t, type, parent, resource) ==
    LET new_resource == StoredResource(t, type, parent, resource)
    IN [result |-> new_resource,
        store |-> [k \in (DOMAIN st) \cup {type} |->
                      IF k = type THEN Append(get(st, type), new_resource) ELSE st[k]]]

\* Python truthiness of an optional string: neither None nor ""
TruthyIfPresent(href) == href # None

Truthy(href) == IF href = None THEN FALSE ELSE href[1] # <<>>

\* the (stored resource, href) pairs of a kind whose href is neither missing nor empty, in store order;
\* get_href is the callable, given as a function of the stored resources of the kind
get_resource_hrefs(st, type, get_href) ==
    LET srs == get(st, type)
        pairs == [i \in 1..Len(srs) |-> <<srs[i], get_href[srs[i]]>>]
        HasHref(pair) == Truthy(pair[2])
    IN SelectSeq(pairs, HasHref)

\* StoredResourceId: the identity of the owning parent (or a root marker) and the resource's own href
RECURSIVE StoredResourceId(_)
StoredResourceId(sr) ==
    [parent |-> IF sr.parent = None THEN None ELSE Some(StoredResourceId(sr.parent[1])),
     href |-> sr.resource.href]

\* the positions of a bucket that hold the identity of a candidate
SameIdentity(bucket, candidate) ==
    {i \in 1..Len(bucket) : StoredResourceId(bucket[i]) = StoredResourceId(candidate)}

upsert_resourceByHref(st, t, type, parent, resource) ==
    LET new_resource == StoredResource(t, type, parent, resource)
        bucket == get(st, type)
        matches == {i \in 1..Len(bucket) : bucket[i].resource.href = resource.href}
        first == CHOOSE i \in matches : \A j \in matches : i <= j
    IN [result |-> new_resource,
        store |-> [k \in (DOMAIN st) \cup {type} |->
                      IF k # type THEN st[k]
                      ELSE IF matches = {} THEN Append(bucket, new_resource)
                      ELSE [bucket EXCEPT ![first] = new_resource]]]

\* an upsert that appends whatever the bucket holds
upsert_resourceAppending(st, t, type, parent, resource) ==
    LET new_resource == StoredResource(t, type, parent, resource)
    IN [result |-> new_resource,
        store |-> [k \in (DOMAIN st) \cup {type} |->
                      IF k = type THEN Append(get(st, type), new_resource) ELSE st[k]]]

upsert_resource(st, t, type, parent, resource) ==
    LET new_resource == StoredResource(t, type, parent, resource)
        bucket == get(st, type)
        matches == SameIdentity(bucket, new_resource)
        first == CHOOSE i \in matches : \A j \in matches : i <= j
    IN [result |-> new_resource,
        store |-> [k \in (DOMAIN st) \cup {type} |->
                      IF k # type THEN st[k]
                      ELSE IF matches = {} THEN Append(bucket, new_resource)
                      ELSE [bucket EXCEPT ![first] = new_resource]]]

\* delete_resource: the stored resource leaves the bucket of its kind, the other entries keeping
\* their order
delete_resource(st, target) ==
    LET bucket == get(st, target.type)
        found == {i \in 1..Len(bucket) : bucket[i] = target}
        first == CHOOSE i \in found : \A j \in found : i <= j
    IN IF found = {} THEN st
       ELSE [st EXCEPT ![target.type] = SubSeq(bucket, 1, first - 1) \o SubSeq(bucket, first + 1, Len(bucket))]

\* a record of one store call, kept to state what the call did
StoreCall(op, type, result) == [op |-> op, type |-> type, result |-> result]

\* the kinds, hrefs and payloads the store specification stores
StoreKinds == {"EndDeviceList", "EndDevice"}

StoreHrefs == {<<"a">>, <<"b">>}

StoreBodies == {1, 2}

\* an end device of either href and either body, or the one list they are members of
StoreResources(type) ==
    IF type = "EndDevice"
    THEN {Resource(Some(h), b, NoLinks) : h \in StoreHrefs, b \in StoreBodies}
    ELSE {Resource(Some(<<"edev">>), 1, NoLinks)}

\* the parents a caller can name: none, or a list resource it read from the store
StoreParents(type) ==
    IF type = "EndDevice"
    THEN {None} \cup {Some(get(store, "EndDeviceList")[i]) : i \in 1..Len(get(store, "EndDeviceList"))}
    ELSE {None}

StoreClear ==
    /\ store' = clear(store)
    /\ store_last' = Some(StoreCall("clear", "", None))
    /\ UNCHANGED <<schedulerVars, engineVars, planVars, pageVars, trackerVars, discoveryVars, contextVars>>

StoreClearResource ==
    /\ \E type \in StoreKinds :
        /\ store' = clear_resource(store, type)
        /\ store_last' = Some(StoreCall("clear_resource", type, None))
    /\ UNCHANGED <<schedulerVars, engineVars, planVars, pageVars, trackerVars, discoveryVars, contextVars>>

StoreSetResource ==
    /\ \E type \in StoreKinds : \E parent \in StoreParents(type) : \E resource \in StoreResources(type) :
        LET r == set_resource(store, now, type, parent, resource)
        IN /\ store' = r.store
           /\ store_last' = Some(StoreCall("set_resource", type, Some(r.result)))
    /\ UNCHANGED <<schedulerVars, engineVars, planVars, pageVars, trackerVars, discoveryVars, contextVars>>

StoreAppendResource ==
    /\ \E type \in StoreKinds : \E parent \in StoreParents(type) : \E resource \in StoreResources(type) :
        LET r == append_resource(store, now, type, parent, resource)
        IN /\ Len(get(store, type)) < MaxBucket
           /\ store' = r.store
           /\ store_last' = Some(StoreCall("append_resource", type, Some(r.result)))
    /\ UNCHANGED <<schedulerVars, engineVars, planVars, pageVars, trackerVars, discoveryVars, contextVars>>

StoreUpsertResource ==
    /\ \E type \in StoreKinds : \E parent \in StoreParents(type) : \E resource \in StoreResources(type) :
        LET r == upsert_resource(store, now, type, parent, resource)
        IN /\ Len(get(r.store, type)) <= MaxBucket
           /\ store' = r.store
           /\ store_last' = Some(StoreCall("upsert_resource", type, Some(r.result)))
    /\ UNCHANGED <<schedulerVars, engineVars, planVars, pageVars, trackerVars, discoveryVars, contextVars>>

\* delete_resource of a stored resource the caller read from the store
StoreDeleteResource ==
    /\ \E type \in StoreKinds : \E i \in 1..Len(get(store, type)) :
        /\ store' = delete_resource(store, get(store, type)[i])
        /\ store_last' = Some(StoreCall("delete_resource", type, Some(get(store, type)[i])))
    /\ UNCHANGED <<schedulerVars, engineVars, planVars, pageVars, trackerVars, discoveryVars, contextVars>>

StoreInit ==
    /\ items = <<>>
    /\ now = BaseTime
    /\ last = Call("init", BaseTime, <<>>, None)
    /\ EngineIdleInit
    /\ ResourceIdleInit

StoreNext ==
    \/ StoreClear
    \/ StoreClearResource
    \/ StoreSetResource
    \/ StoreAppendResource
    \/ StoreUpsertResource
    \/ StoreDeleteResource

StoreSpec == StoreInit /\ [][StoreNext]_vars

\* the latest store call, if it is a call of op whose step changed the state
StoreStep(op) ==
    /\ store_last' # None
    /\ store_last'[1].op = op
    /\ <<store, store_last>>' # <<store, store_last>>

\* C11: upsert_resource replaces the entry of the same (parent, href) identity in place, the
\* bucket keeping its size and its other entries; without one (an equal href under another
\* parent does not count) it appends at the end and every existing entry keeps its position
UpsertReplacesInPlaceOrAppends ==
    [][StoreStep("upsert_resource") =>
        LET c == store_last'[1]
            new == c.result[1]
            before == get(store, c.type)
            after == get(store', c.type)
        IN IF SameIdentity(before, new) # {}
           THEN /\ Len(after) = Len(before)
                /\ \E i \in SameIdentity(before, new) : after = [before EXCEPT ![i] = new]
           ELSE after = Append(before, new)]_vars

\* C11 witness: the second payload of an identity sits at the first position, next to an entry of
\* the same href under another parent that was left alone
UpsertReplacedBesideSameHref ==
    /\ store_last # None
    /\ store_last[1].op = "upsert_resource"
    /\ Len(get(store, "EndDevice")) = 2
    /\ LET bucket == get(store, "EndDevice")
       IN /\ bucket[1] = store_last[1].result[1]
          /\ bucket[1].resource.body = 2
          /\ bucket[2].resource.href = bucket[1].resource.href
          /\ bucket[2].parent # bucket[1].parent
          /\ bucket[2].resource.body = 1

\* C20: after set_resource the bucket of the kind is exactly the new entry, and the bucket of
\* every other kind is what it was
SetResourceReplacesBucket ==
    [][StoreStep("set_resource") =>
        LET c == store_last'[1]
        IN /\ get(store', c.type) = <<c.result[1]>>
           /\ c.result[1].type = c.type
           /\ \A k \in (DOMAIN store \cup DOMAIN store') \ {c.type} : get(store', k) = get(store, k)]_vars

\* C20 witness: set_resource has just left one entry in a bucket while another kind holds two
SetResourceBesideOtherBucket ==
    /\ store_last # None
    /\ store_last[1].op = "set_resource"
    /\ store_last[1].type = "EndDevice"
    /\ get(store, "EndDevice") = <<store_last[1].result[1]>>
    /\ Len(get(store, "EndDeviceList")) = 2


(***************************************************************************)
(* The resource tree and the discovery plan                                *)
(***************************************************************************)
MaxTargets == 2      \* longest target list handed to discover_resource_plan
MaxPlanCalls == 2    \* invocations of discover_resource_plan on one target list

\* the tree of get_resource_tree: every kind with its parent, DeviceCapability being the root
get_resource_tree ==
    [DeviceCapability |-> None,
     Time |-> Some("DeviceCapability"),
     MirrorUsagePointList |-> Some("DeviceCapability"),
     EndDeviceList |-> Some("DeviceCapability"),
     MirrorUsagePoint |-> Some("MirrorUsagePointList"),
     EndDevice |-> Some("EndDeviceList"),
     ConnectionPoint |-> Some("EndDevice"),
     Registration |-> Some("EndDevice"),
     FunctionSetAssignmentsList |-> Some("EndDevice"),
     FunctionSetAssignments |-> Some("FunctionSetAssignmentsList"),
     DERProgramList |-> Some("FunctionSetAssignments"),
     DERProgram |-> Some("DERProgramList"),
     DefaultDERControl |-> Some("DERProgram"),
     DERControlList |-> Some("DERProgram"),
     DERControl |-> Some("DERControlList"),
     DERList |-> Some("EndDevice"),
     DER |-> Some("DERList"),
     DERCapability |-> Some("DER"),
     DERSettings |-> Some("DER"),
     DERStatus |-> Some("DER")]

RESOURCE_TREE == get_resource_tree

CSIPAusResource == DOMAIN RESOURCE_TREE

\* Tree.rsearch: the node ids from nid up to the root
RECURSIVE rsearch(_, _)
rsearch(tree, nid) ==
    IF tree[nid] = None THEN <<nid>> ELSE <<nid>> \o rsearch(tree, tree[nid][1])

reversed(seq) == [i \in 1..Len(seq) |-> seq[Len(seq) + 1 - i]]

\* the inner loop of discover_resource_plan without its visited_nodes test
RECURSIVE PlanStepsRevisiting(_, _, _)
PlanStepsRevisiting(steps, i, acc) ==
    IF i > Len(steps) THEN acc
    ELSE PlanStepsRevisiting(steps, i + 1,
                             [visit_order |-> Append(acc.visit_order, steps[i]),
                              visited_nodes |-> acc.visited_nodes \cup {steps[i]}])

\* the inner loop of discover_resource_plan: the steps of one target, from position i on
RECURSIVE PlanSteps(_, _, _)
PlanSteps(steps, i, acc) ==
    IF i > Len(steps) THEN acc
    ELSE IF steps[i] \in acc.visited_nodes THEN PlanSteps(steps, i + 1, acc)
    ELSE PlanSteps(steps, i + 1,
                   [visit_order |-> Append(acc.visit_order, steps[i]),
                    visited_nodes |-> acc.visited_nodes \cup {steps[i]}])

RECURSIVE PlanTargetsUnreversed(_, _, _, _)
PlanTargetsUnreversed(tree, targets, i, acc) ==
    IF i > Len(targets) THEN acc
    ELSE PlanTargetsUnreversed(tree, targets, i + 1, PlanSteps(rsearch(tree, targets[i]), 1, acc))

RECURSIVE PlanTargetsRevisiting(_, _, _, _)
PlanTargetsRevisiting(tree, targets, i, acc) ==
    IF i > Len(targets) THEN acc
    ELSE PlanTargetsRevisiting(tree, targets, i + 1,
                               PlanStepsRevisiting(reversed(rsearch(tree, targets[i])), 1, acc))

\* the outer loop of discover_resource_plan: the targets from position i on
RECURSIVE PlanTargets(_, _, _, _)
PlanTargets(tree, targets, i, acc) ==
    IF i > Len(targets) THEN acc
    ELSE PlanTargets(tree, targets, i + 1, PlanSteps(reversed(rsearch(tree, targets[i])), 1, acc))

discover_resource_planUnreversed(tree, target_list) ==
    PlanTargetsUnreversed(tree, target_list, 1, [visit_order |-> <<>>, visited_nodes |-> {}]).visit_order

discover_resource_planRevisiting(tree, target_list) ==
    PlanTargetsRevisiting(tree, target_list, 1, [visit_order |-> <<>>, visited_nodes |-> {}]).visit_order

discover_resource_plan(tree, target_list) ==
    PlanTargets(tree, target_list, 1, [visit_order |-> <<>>, visited_nodes |-> {}]).visit_order

\* the target lists handed to discover_resource_plan: kinds of the tree, in any order, with repeats
TargetLists == UNION {[1..n -> CSIPAusResource] : n \in 0..MaxTargets}

PlanInvoke ==
    /\ Len(plan_calls) < MaxPlanCalls
    /\ plan_calls' = Append(plan_calls, discover_resource_plan(RESOURCE_TREE, target_resources))
    /\ UNCHANGED <<schedulerVars, engineVars, storeVars, target_resources, pageVars, trackerVars,
                   discoveryVars, contextVars>>

PlanInit ==
    /\ items = <<>>
    /\ now = BaseTime
    /\ last = Call("init", BaseTime, <<>>, None)
    /\ EngineIdleInit
    /\ store = EmptyStore
    /\ store_last = None
    /\ target_resources \in TargetLists
    /\ plan_calls = <<>>
    /\ page_pc = "off"
    /\ start = 0
    /\ pages_requested = 0
    /\ every_all_value = <<>>
    /\ all_received_items = <<>>
    /\ max_pages_requested = 0
    /\ warnings = <<>>
    /\ responses = <<>>
    /\ server = [devices |-> <<>>, version |-> 0]
    /\ disc_last = None
    /\ ContextIdleInit

PlanNext == PlanInvoke

PlanSpec == PlanInit /\ [][PlanNext]_vars

\* the proper ancestors of a kind in the static tree
RECURSIVE AncestorsOf(_)
AncestorsOf(kind) ==
    IF RESOURCE_TREE[kind] = None THEN {}
    ELSE {RESOURCE_TREE[kind][1]} \cup AncestorsOf(RESOURCE_TREE[kind][1])

NoDuplicates(seq) == \A i, j \in 1..Len(seq) : seq[i] = seq[j] => i = j

\* C12: a plan has no duplicate kind, holds exactly the targets and their ancestors, lists every
\* ancestor of a kind before the kind (so it starts with DeviceCapability unless it is empty);
\* no target gives the empty plan and DERSettings alone gives the six kinds down to DERSettings
PlanIsAncestorsFirstWalk ==
    \A c \in 1..Len(plan_calls) :
        LET plan == plan_calls[c]
        IN /\ NoDuplicates(plan)
           /\ Elems(plan) = Elems(target_resources)
                              \cup UNION {AncestorsOf(t) : t \in Elems(target_resources)}
           /\ \A j \in 1..Len(plan) : \A a \in AncestorsOf(plan[j]) : \E i \in 1..(j - 1) : plan[i] = a
           /\ plan # <<>> => plan[1] = "DeviceCapability"
           /\ target_resources = <<>> => plan = <<>>
           /\ target_resources = <<"DERSettings">> =>
                  plan = <<"DeviceCapability", "EndDeviceList", "EndDevice", "DERList", "DER",
                           "DERSettings">>

\* C12 witness: two targets in different branches were planned, the shared root listed once
PlannedTwoBranches ==
    /\ target_resources = <<"DERSettings", "Time">>
    /\ Len(plan_calls) >= 1
    /\ plan_calls[1] = <<"DeviceCapability", "EndDeviceList", "EndDevice", "DERList", "DER",
                         "DERSettings", "Time">>

\* the targets in the order they are first seen, each once
RECURSIVE FirstSeen(_, _, _)
FirstSeen(seq, i, acc) ==
    IF i > Len(seq) THEN acc
    ELSE FirstSeen(seq, i + 1, IF seq[i] \in Elems(acc) THEN acc ELSE Append(acc, seq[i]))

MaxPagesBound == 4   \* largest max_pages_requested a caller passes
MaxAnomalies == 1    \* pages of one list whose results or all attribute is missing or wrong

PageSize == 2                    \* page_size of the pagination tests
MaxPagesDefault == 20            \* default of max_pages_requested
ListAll == 3                     \* the all attribute of the lists served to the tests

ListHref == <<"foo", "bar">>     \* "/foo/bar"

\* the query string ?s={start}&l={limit}&a={changed_after}, kept as its parts in order; a
\* parameter that is None has no part
build_paging_paramsLimitFirst(start_, limit, changed_after) ==
    (IF limit = None THEN <<>> ELSE << <<"l", limit[1]>> >>)
    \o (IF start_ = None THEN <<>> ELSE << <<"s", start_[1]>> >>)
    \o (IF changed_after = None THEN <<>> ELSE << <<"a", changed_after[1]>> >>)

build_paging_params(start_, limit, changed_after) ==
    (IF start_ = None THEN <<>> ELSE << <<"s", start_[1]>> >>)
    \o (IF limit = None THEN <<>> ELSE << <<"l", limit[1]>> >>)
    \o (IF changed_after = None THEN <<>> ELSE << <<"a", changed_after[1]>> >>)

\* a parsed list page: the items the item_callback extracts, and the results and all attributes
ListPage(page_items, results, all_) == [items |-> page_items, results |-> results, all_ |-> all_]

\* a ServerResponse as the ResponseTracker logs it: the url and the parsed body (None unless the
\* status is a success)
ServerResponse(href, query, page) == [href |-> href, query |-> query, body |-> page]

\* the locals of paginate_list_object_items and the trackers it writes
PageState(pc_, start_, requested, all_values, received, warned, logged) ==
    [pc |-> pc_, start |-> start_, pages_requested |-> requested, every_all_value |-> all_values,
     all_received_items |-> received, warnings |-> warned, responses |-> logged]

PageStateInit == PageState("running", 0, 0, <<>>, <<>>, <<>>, <<>>)

\* the break test of the loop
IsLastPageShort(latest_items, page_size) == Len(latest_items) < page_size

IsLastPage(latest_items, page_size) == Len(latest_items) = 0

\* the safety valve of the loop
ExceedsMaxPagesStrict(requested, max_pages) == requested > max_pages

ExceedsMaxPages(requested, max_pages) == requested >= max_pages

\* one pass of the loop, given what the server answers (None: a status that is no success)
PageStep(st, list_href, page_size, max_pages, response) ==
    LET query == build_paging_params(Some(st.start), Some(page_size), None)
        logged == Append(st.responses, ServerResponse(list_href, query, response))
    IN IF response = None
       THEN [st EXCEPT !.pc = "request_failed", !.responses = logged]
       ELSE LET latest_list == response[1]
                latest_items == latest_list.items
                received == st.all_received_items \o latest_items
                results_warning ==
                    IF latest_list.results = None THEN <<"Missing 'results' attribute">>
                    ELSE IF latest_list.results[1] # Len(latest_items)
                         THEN <<"'results' attribute differs from the items">>
                         ELSE <<>>
                all_warning == IF latest_list.all_ = None THEN <<"Missing 'all' attribute">> ELSE <<>>
                all_values == IF latest_list.all_ = None THEN st.every_all_value
                              ELSE Append(st.every_all_value, latest_list.all_[1])
                warned == st.warnings \o results_warning \o all_warning
                varied_warning == IF Cardinality(Elems(all_values)) > 1
                                  THEN <<"The 'all' attribute has varied">> ELSE <<>>
            IN IF IsLastPage(latest_items, page_size)
               THEN PageState("returned", st.start + page_size, st.pages_requested, all_values,
                              received, warned \o varied_warning, logged)
               ELSE IF ExceedsMaxPages(st.pages_requested + 1, max_pages)
               THEN PageState("max_pages_exceeded", st.start + page_size, st.pages_requested + 1,
                              all_values, received, warned, logged)
               ELSE PageState("running", st.start + page_size, st.pages_requested + 1, all_values,
                              received, warned, logged)

\* the items of the n-th page served: told apart by the request and their position
PageItems(n, count) == [i \in 1..count |-> <<n, i>>]

\* the pages of a list fetched so far whose attributes are missing or wrong
AnomaliesSoFar ==
    Cardinality({i \in 1..Len(responses) :
                    /\ responses[i].body # None
                    /\ \/ responses[i].body[1].results # Some(Len(responses[i].body[1].items))
                       \/ responses[i].body[1].all_ # Some(ListAll)})

\* what a server may answer to the next page request
PageResponses ==
    LET n == Len(responses) + 1
    IN {Some(ListPage(PageItems(n, c), Some(c), Some(ListAll))) : c \in 0..PageSize}
       \cup (IF AnomaliesSoFar < MaxAnomalies
             THEN UNION {{Some(ListPage(PageItems(n, c), None, Some(ListAll))),
                          Some(ListPage(PageItems(n, c), Some(c + 1), Some(ListAll))),
                          Some(ListPage(PageItems(n, c), Some(c), None)),
                          Some(ListPage(PageItems(n, c), Some(c), Some(0)))} : c \in 0..PageSize}
             ELSE {})

PaginateStepWith(response) ==
    LET st == PageState(page_pc, start, pages_requested, every_all_value, all_received_items,
                        warnings, responses)
        r == PageStep(st, ListHref, PageSize, max_pages_requested, response)
    IN /\ page_pc = "running"
       /\ page_pc' = r.pc
       /\ start' = r.start
       /\ pages_requested' = r.pages_requested
       /\ every_all_value' = r.every_all_value
       /\ all_received_items' = r.all_received_items
       /\ warnings' = r.warnings
       /\ responses' = r.responses
       /\ UNCHANGED <<schedulerVars, engineVars, storeVars, planVars, max_pages_requested,
                      discoveryVars, contextVars>>

\* a page arrives and is parsed
PaginateFetch == \E response \in PageResponses : PaginateStepWith(response)

\* a failed page request that also leaves a warning behind
PaginateRequestFailsWithWarning ==
    /\ page_pc = "running"
    /\ page_pc' = "request_failed"
    /\ responses' = Append(responses, ServerResponse(ListHref,
                                                     build_paging_params(Some(start), Some(PageSize), None), None))
    /\ warnings' = Append(warnings, "Request failed")
    /\ UNCHANGED <<schedulerVars, engineVars, storeVars, planVars, start, pages_requested, every_all_value,
                   all_received_items, max_pages_requested, discoveryVars, contextVars>>

\* the server answers a page request with an error status, or with a body that does not parse
PaginateRequestFails == PaginateStepWith(None)

PageInit ==
    /\ items = <<>>
    /\ now = BaseTime
    /\ last = Call("init", BaseTime, <<>>, None)
    /\ EngineIdleInit
    /\ store = EmptyStore
    /\ store_last = None
    /\ target_resources = <<>>
    /\ plan_calls = <<>>
    /\ page_pc = PageStateInit.pc
    /\ start = PageStateInit.start
    /\ pages_requested = PageStateInit.pages_requested
    /\ every_all_value = PageStateInit.every_all_value
    /\ all_received_items = PageStateInit.all_received_items
    /\ max_pages_requested \in 1..MaxPagesBound
    /\ warnings = PageStateInit.warnings
    /\ responses = PageStateInit.responses
    /\ server = [devices |-> <<>>, version |-> 0]
    /\ disc_last = None
    /\ ContextIdleInit

PageNext == PaginateFetch \/ PaginateRequestFails

PageSpec == PageInit /\ [][PageNext]_vars


\* the number of items of each page fetched so far; -1 for a request that failed
PageSizes ==
    [i \in 1..Len(responses) |->
        IF responses[i].body = None THEN -1 ELSE Len(responses[i].body[1].items)]

\* the items of the pages fetched so far, in page order
RECURSIVE ItemsOfPages(_)
ItemsOfPages(n) ==
    IF n = 0 THEN <<>>
    ELSE ItemsOfPages(n - 1) \o (IF responses[n].body = None THEN <<>> ELSE responses[n].body[1].items)

\* C14: the i-th request asks for href?s=(i-1)*p&l=p, no request follows an empty page, a
\* pagination that returns has just fetched its first empty page and returns the items of all
\* pages in page order, without a warning when every page reports its own count and the same
\* total; pages of 2, 1 and 0 items make three requests (0, 2, 4) and three items
PaginationWalksOffsets ==
    /\ \A i \in 1..Len(responses) :
           /\ responses[i].href = ListHref
           /\ responses[i].query = << <<"s", (i - 1) * PageSize>>, <<"l", PageSize>> >>
    /\ \A i \in 1..(Len(responses) - 1) : PageSizes[i] > 0
    /\ page_pc = "running" => \A i \in 1..Len(responses) : PageSizes[i] > 0
    /\ page_pc = "returned" =>
           /\ responses # <<>>
           /\ PageSizes[Len(responses)] = 0
           /\ all_received_items = ItemsOfPages(Len(responses))
           /\ AnomaliesSoFar = 0 => warnings = <<>>
    /\ (Len(responses) >= 3 /\ PageSizes[1] = 2 /\ PageSizes[2] = 1 /\ PageSizes[3] = 0) =>
           /\ page_pc = "returned"
           /\ Len(responses) = 3
           /\ responses[3].query[1] = <<"s", 4>>
           /\ Len(all_received_items) = 3

\* C14 witness: pages of 2, 1 and 0 items were fetched and the three items returned, no warning
PaginatedThreePages ==
    /\ page_pc = "returned"
    /\ PageSizes = <<2, 1, 0>>
    /\ all_received_items = <<<<1, 1>>, <<1, 2>>, <<2, 1>>>>
    /\ warnings = <<>>

\* C15 as stated: every request but the first fetches a page that holds items, and no request
\* follows a page that holds fewer items than the page size
NoRequestAfterLastItemPage ==
    /\ \A i \in 2..Len(responses) : PageSizes[i] # 0
    /\ \A i \in 1..(Len(responses) - 1) : PageSizes[i] = PageSize

\* C15 amended: a pagination that returns has made one request more than there are pages holding
\* items, the last one fetching the empty page that stops it; a page holding fewer items than
\* the page size is followed by a request like any other, and full pages [2, 2, 2] by a fourth
\* request at offset 6
OneRequestAfterLastItemPage ==
    page_pc = "returned" =>
        /\ Len(responses) = Cardinality({i \in 1..Len(responses) : PageSizes[i] > 0}) + 1
        /\ PageSizes[Len(responses)] = 0
        /\ \A i \in 1..Len(responses) : PageSizes[i] > 0 => i < Len(responses)
        /\ (Len(responses) >= 3 /\ \A i \in 1..3 : PageSizes[i] = 2) =>
               /\ Len(responses) >= 4
               /\ responses[4].query[1] = <<"s", 6>>

\* C15 witness: three full pages were followed by a fourth request, whose empty page ended it
PaginatedFullPagesThenEmpty ==
    /\ page_pc = "returned"
    /\ PageSizes = <<2, 2, 2, 0>>
    /\ Len(all_received_items) = 6

\* C16 as stated: the safety valve raises only once more than max_pages_requested pages have
\* been requested, and a list whose empty page is among the first max_pages_requested pages
\* is returned
PaginationAbortsBeyondMax ==
    /\ page_pc = "max_pages_exceeded" => Len(responses) > max_pages_requested
    /\ (\E i \in 1..Len(responses) : i <= max_pages_requested /\ PageSizes[i] = 0) =>
           page_pc = "returned"

\* C16 amended: the safety valve raises exactly when max_pages_requested pages have been
\* requested and each of them held items; no further page is ever requested, and a list whose
\* empty page is among those requests is returned
PaginationAbortsAtMax ==
    /\ page_pc = "max_pages_exceeded" <=>
           /\ Len(responses) = max_pages_requested
           /\ \A i \in 1..Len(responses) : PageSizes[i] > 0
    /\ Len(responses) <= max_pages_requested
    /\ (\E i \in 1..Len(responses) : PageSizes[i] = 0) => page_pc = "returned"

\* C16 witness: with max_pages_requested = 2 the second page holding items raised, two requests made
AbortedAtMaxPages ==
    /\ page_pc = "max_pages_exceeded"
    /\ max_pages_requested = 2
    /\ PageSizes = <<2, 1>>


(***************************************************************************)
(* Discovery: action_discovery, discover_resource and the server it asks   *)
(*                                                                         *)
(* The server holds one device capability at DcapPath whose only link is   *)
(* the end device list "/edev"; each end device "/edev/i" may link to a    *)
(* DER list "/edev/i/der" holding DERs "/edev/i/der/j".  Every resource    *)
(* carries the version of the server's data it was read from.  The server  *)
(* answers every request for a resource it holds.                          *)
(***************************************************************************)
MaxDevices == 2      \* end devices the server holds
MaxDers == 1         \* DERs in one DER list
MaxVersion == 1      \* times the server's data changes

DISCOVERY_LIST_PAGE_SIZE == 3

DcapPath == <<"dcap">>

\* an end device as the server holds it: its DERListLink (missing, empty or set), the href the
\* DER list reports for itself (missing, empty or set) and the number of DERs in that list
DeviceShape(link, href, ders) == [link |-> link, href |-> href, ders |-> ders]

DeviceShapes ==
    {DeviceShape("none", "set", 0), DeviceShape("empty", "set", 0), DeviceShape("set", "none", 0),
     DeviceShape("set", "empty", 0)}
    \cup {DeviceShape("set", "set", n) : n \in 0..MaxDers}

Servers == {[devices |-> d, version |-> 0] : d \in UNION {[1..n -> DeviceShapes] : n \in 0..MaxDevices}}

\* an optional href of the server: missing, empty or the path
HrefOf(state, path) == IF state = "none" THEN None ELSE IF state = "empty" THEN Some(<<>>) ELSE Some(path)

IsDerListPath(srv, href) ==
    /\ Len(href) = 3
    /\ href[1] = "edev"
    /\ href[3] = "der"
    /\ href[2] \in 1..Len(srv.devices)
    /\ srv.devices[href[2]].link = "set"

\* whether the server answers the GET of a href, or the page requests of a list, with a status
\* that is no success
Failing(srv, href, paged) ==
    IF "failing" \in DOMAIN srv THEN <<href, paged>> \in srv.failing ELSE FALSE

\* what a GET of one resource answers: the resource, or None for a status that is no success
ServerGet(srv, target, href) ==
    IF Failing(srv, href, FALSE) THEN None
    ELSE IF target = "DeviceCapability" /\ href = DcapPath
    THEN Some(Resource(Some(DcapPath), srv.version, [k \in {"EndDeviceList"} |-> Some(<<"edev">>)]))
    ELSE IF target = "EndDeviceList" /\ href = <<"edev">>
    THEN Some(Resource(Some(<<"edev">>), srv.version, NoLinks))
    ELSE IF target = "DERList" /\ IsDerListPath(srv, href)
    THEN Some(Resource(HrefOf(srv.devices[href[2]].href, href), srv.version, NoLinks))
    ELSE None

\* the members of a list resource, in the order the server pages through them
ServerList(srv, href) ==
    IF href = <<"edev">>
    THEN [i \in 1..Len(srv.devices) |->
             Resource(Some(<<"edev", i>>), srv.version,
                      [k \in {"DERList"} |-> HrefOf(srv.devices[i].link, <<"edev", i, "der">>)])]
    ELSE IF IsDerListPath(srv, href)
    THEN [j \in 1..srv.devices[href[2]].ders |-> Resource(Some(href \o <<j>>), srv.version, NoLinks)]
    ELSE <<>>

\* the page of a list a well behaved server answers to ?s=start&l=limit
ServerPage(members, start_, limit) ==
    LET upto == IF start_ + limit < Len(members) THEN start_ + limit ELSE Len(members)
        page_items == SubSeq(members, start_ + 1, upto)
    IN Some(ListPage(page_items, Some(Len(page_items)), Some(Len(members))))

\* paginate_list_object_items run to its end against one list of the server
RECURSIVE PaginateLoop(_, _, _, _, _)
PaginateLoop(st, list_href, page_size, max_pages, srv) ==
    IF st.pc # "running" THEN st
    ELSE PaginateLoop(PageStep(st, list_href, page_size, max_pages,
                               IF Failing(srv, list_href, TRUE) THEN None
                               ELSE ServerPage(ServerList(srv, list_href), st.start, page_size)),
                      list_href, page_size, max_pages, srv)

\* Link.href of a link of a resource, or None without the link
get_link_href(resource, target) ==
    IF target \in DOMAIN resource.links THEN resource.links[target] ELSE None

\* the store and the trackers while action_discovery runs; raised once a request has failed
DiscState(st, logged, warned, raised, reached) ==
    [store |-> st, responses |-> logged, warnings |-> warned, raised |-> raised, reached |-> reached]

\* a loop that goes on to the next parent after a request that failed
RECURSIVE SingularLoopSkippingFailure(_, _, _, _, _, _)
SingularLoopSkippingFailure(ds, target, pairs, i, srv, t) ==
    IF i > Len(pairs) \/ ds.raised THEN ds
    ELSE LET sr == pairs[i][1]
             href == pairs[i][2][1]
             target_entity == ServerGet(srv, target, href)
             logged == Append(ds.responses, ServerResponse(href, <<>>, target_entity))
         IN IF target_entity = None
            THEN SingularLoopSkippingFailure([ds EXCEPT !.responses = logged], target, pairs, i + 1, srv, t)
            ELSE SingularLoopSkippingFailure([ds EXCEPT !.responses = logged,
                                                        !.store = append_resource(ds.store, t, target, Some(sr),
                                                                                  target_entity[1]).store],
                                             target, pairs, i + 1, srv, t)

\* get_resource_for_step: the GET is logged, and a status that is no success raises
RECURSIVE SingularLoop(_, _, _, _, _, _)
SingularLoop(ds, target, pairs, i, srv, t) ==
    IF i > Len(pairs) \/ ds.raised THEN ds
    ELSE LET sr == pairs[i][1]
             href == pairs[i][2][1]
             target_entity == ServerGet(srv, target, href)
             logged == Append(ds.responses, ServerResponse(href, <<>>, target_entity))
         IN IF target_entity = None
            THEN [ds EXCEPT !.responses = logged, !.raised = TRUE]
            ELSE SingularLoop([ds EXCEPT !.responses = logged,
                                         !.store = append_resource(ds.store, t, target, Some(sr),
                                                                   target_entity[1]).store],
                              target, pairs, i + 1, srv, t)

do_discovery_singularKeeping(ds, target_resource, parent_resource, srv, t) ==
    LET pairs == get_resource_hrefs(ds.store, parent_resource,
                                    [sr \in Elems(get(ds.store, parent_resource)) |->
                                        get_link_href(sr.resource, target_resource)])
    IN SingularLoop(ds, target_resource, pairs, 1, srv, t)

do_discovery_singular(ds, target_resource, parent_resource, srv, t) ==
    LET cleared == [ds EXCEPT !.store = clear_resource(ds.store, target_resource)]
        pairs == get_resource_hrefs(cleared.store, parent_resource,
                                    [sr \in Elems(get(cleared.store, parent_resource)) |->
                                        get_link_href(sr.resource, target_resource)])
    IN SingularLoop(cleared, target_resource, pairs, 1, srv, t)

\* for item in list_items: append_resource(target_resource, sr, item)
RECURSIVE AppendItems(_, _, _, _, _, _)
AppendItems(st, t, target, sr, list_items, i) ==
    IF i > Len(list_items) THEN st
    ELSE AppendItems(append_resource(st, t, target, Some(sr), list_items[i]).store, t, target, sr,
                     list_items, i + 1)

RECURSIVE ListItemsLoop(_, _, _, _, _, _)
\* one turn of the loop of do_discovery_list_items, paged being what the pagination of the
\* list of pairs[i] came to
ListItemsPaged(ds, target, pairs, i, srv, t, paged) ==
    IF paged.pc # "returned"
    THEN [ds EXCEPT !.responses = paged.responses, !.warnings = paged.warnings, !.raised = TRUE]
    ELSE ListItemsLoop([ds EXCEPT !.responses = paged.responses,
                                  !.warnings = paged.warnings,
                                  !.store = AppendItems(ds.store, t, target, pairs[i][1],
                                                        paged.all_received_items, 1)],
                       target, pairs, i + 1, srv, t)

ListItemsLoop(ds, target, pairs, i, srv, t) ==
    IF i > Len(pairs) \/ ds.raised THEN ds
    ELSE ListItemsPaged(ds, target, pairs, i, srv, t,
                        PaginateLoop(PageState("running", 0, 0, <<>>, <<>>, ds.warnings, ds.responses),
                                     pairs[i][2][1], DISCOVERY_LIST_PAGE_SIZE, MaxPagesDefault, srv))

do_discovery_list_itemsFirstOnly(ds, target_resource, list_resource, srv, t) ==
    LET cleared == [ds EXCEPT !.store = clear_resource(ds.store, target_resource)]
        pairs == get_resource_hrefs(cleared.store, list_resource,
                                    [sr \in Elems(get(cleared.store, list_resource)) |-> sr.resource.href])
    IN ListItemsLoop(cleared, target_resource, IF pairs = <<>> THEN pairs ELSE <<pairs[1]>>, 1, srv, t)

do_discovery_list_items(ds, target_resource, list_resource, srv, t) ==
    LET cleared == [ds EXCEPT !.store = clear_resource(ds.store, target_resource)]
        pairs == get_resource_hrefs(cleared.store, list_resource,
                                    [sr \in Elems(get(cleared.store, list_resource)) |-> sr.resource.href])
    IN ListItemsLoop(cleared, target_resource, pairs, 1, srv, t)

\* the case of discover_resource a kind falls into
SingularResources ==
    {"Time", "MirrorUsagePointList", "EndDeviceList", "ConnectionPoint", "Registration",
     "FunctionSetAssignmentsList", "DERProgramList", "DefaultDERControl", "DERControlList", "DERList",
     "DERCapability", "DERSettings", "DERStatus"}

ListItemResources ==
    {"MirrorUsagePoint", "EndDevice", "FunctionSetAssignments", "DERProgram", "DERControl", "DER"}

\* the parent_resource or list_resource the case of a kind names: its parent in the tree
ParentResource(resource) == RESOURCE_TREE[resource][1]

discover_resourceAppending(ds, resource, srv, t) ==
    LET began == [ds EXCEPT !.reached = Append(ds.reached, resource)]
    IN IF resource = "DeviceCapability"
       THEN LET dcap == ServerGet(srv, resource, DcapPath)
                logged == Append(began.responses, ServerResponse(DcapPath, <<>>, dcap))
            IN IF dcap = None
               THEN [began EXCEPT !.responses = logged, !.raised = TRUE]
               ELSE [began EXCEPT !.responses = logged,
                                  !.store = append_resource(began.store, t, resource, None, dcap[1]).store]
       ELSE IF resource \in SingularResources
       THEN do_discovery_singular(began, resource, ParentResource(resource), srv, t)
       ELSE do_discovery_list_items(began, resource, ParentResource(resource), srv, t)

discover_resource(ds, resource, srv, t) ==
    LET began == [ds EXCEPT !.reached = Append(ds.reached, resource)]
    IN IF resource = "DeviceCapability"
       THEN LET dcap == ServerGet(srv, resource, DcapPath)
                logged == Append(began.responses, ServerResponse(DcapPath, <<>>, dcap))
            IN IF dcap = None
               THEN [began EXCEPT !.responses = logged, !.raised = TRUE]
               ELSE [began EXCEPT !.responses = logged,
                                  !.store = set_resource(began.store, t, resource, None, dcap[1]).store]
       ELSE IF resource \in SingularResources
       THEN do_discovery_singular(began, resource, ParentResource(resource), srv, t)
       ELSE do_discovery_list_items(began, resource, ParentResource(resource), srv, t)

\* a loop that goes through the plan from its end
RECURSIVE DiscoverPlanFromEnd(_, _, _, _, _)
DiscoverPlanFromEnd(ds, plan, i, srv, t) ==
    IF i > Len(plan) \/ ds.raised THEN ds
    ELSE DiscoverPlanFromEnd(discover_resource(ds, plan[Len(plan) + 1 - i], srv, t), plan, i + 1, srv, t)

\* for resource in discover_resource_plan(RESOURCE_TREE, resources): discover_resource(...)
RECURSIVE DiscoverPlan(_, _, _, _, _)
DiscoverPlan(ds, plan, i, srv, t) ==
    IF i > Len(plan) \/ ds.raised THEN ds
    ELSE DiscoverPlan(discover_resource(ds, plan[i], srv, t), plan, i + 1, srv, t)

\* action_discovery without next_polling_window: no wait precedes the requests
action_discovery(st, resources, srv, t) ==
    DiscoverPlan(DiscState(st, <<>>, <<>>, FALSE, <<>>),
                 discover_resource_plan(RESOURCE_TREE, resources), 1, srv, t)

\* the resources parameter of the discovery action: no kind, one of the kinds the server holds
\* resources of, or a kind it holds none of
DiscoveryTargets ==
    {<<>>} \cup {<<k>> : k \in {"DeviceCapability", "EndDeviceList", "EndDevice", "DERList", "DER", "Time"}}

\* a record of one action_discovery call, kept to state what the call did: its resources, whether
\* a request raised, the kinds it went through and the buckets of all other kinds as it found them
DiscoveryCall(resources, raised, reached, others) ==
    [resources |-> resources, raised |-> raised, reached |-> reached, others |-> others]

\* no request of the run has failed: a failed request raises and ends the run
DiscoveryRunning == IF disc_last = None THEN TRUE ELSE ~disc_last[1].raised

\* one discovery action
ActionDiscovery ==
    /\ DiscoveryRunning
    /\ \E resources \in DiscoveryTargets :
       \E r \in {action_discovery(store, resources, server, now)} :
              /\ store' = r.store
              /\ responses' = r.responses
              /\ warnings' = r.warnings
              /\ disc_last' = Some(DiscoveryCall(resources, r.raised, r.reached,
                                                 [k \in DOMAIN store \ Elems(r.reached) |-> store[k]]))
    /\ UNCHANGED <<schedulerVars, engineVars, store_last, planVars, pageVars, server, contextVars>>

\* the data of the server changes between two actions
ServerUpdates ==
    /\ DiscoveryRunning
    /\ server.version < MaxVersion
    /\ server' = [server EXCEPT !.version = @ + 1]
    /\ UNCHANGED <<schedulerVars, engineVars, storeVars, planVars, pageVars, trackerVars, disc_last, contextVars>>

DiscoveryInit ==
    /\ items = <<>>
    /\ now = BaseTime
    /\ last = Call("init", BaseTime, <<>>, None)
    /\ EngineIdleInit
    /\ store = EmptyStore
    /\ store_last = None
    /\ target_resources = <<>>
    /\ plan_calls = <<>>
    /\ page_pc = "off"
    /\ start = 0
    /\ pages_requested = 0
    /\ every_all_value = <<>>
    /\ all_received_items = <<>>
    /\ max_pages_requested = 0
    /\ warnings = <<>>
    /\ responses = <<>>
    /\ server \in Servers
    /\ disc_last = None
    /\ ContextIdleInit

DiscoveryNext == ActionDiscovery \/ ServerUpdates

DiscoverySpec == DiscoveryInit /\ [][DiscoveryNext]_vars

\* the kinds the latest discovery action went through
LastPlan == discover_resource_plan(RESOURCE_TREE, disc_last[1].resources)

\* a logged response to the GET of one resource, not of a page of a list
IsGet(response) == response.query = <<>>

\* the kind a logged request asked this server for
KindFetched(response) ==
    IF response.href = DcapPath THEN "DeviceCapability"
    ELSE IF response.href = <<"edev">> THEN (IF IsGet(response) THEN "EndDeviceList" ELSE "EndDevice")
    ELSE IF Len(response.href) = 3 THEN (IF IsGet(response) THEN "DERList" ELSE "DER")
    ELSE "unknown"

\* the resources of a kind the first n logged responses carry, in the order they arrived
RECURSIVE FetchedOf(_, _, _)
FetchedOf(logged, kind, n) ==
    IF n = 0 THEN <<>>
    ELSE FetchedOf(logged, kind, n - 1)
         \o (IF KindFetched(logged[n]) # kind \/ logged[n].body = None THEN <<>>
             ELSE IF IsGet(logged[n]) THEN logged[n].body
             ELSE logged[n].body[1].items)

ResourcesOf(bucket) == [i \in 1..Len(bucket) |-> bucket[i].resource]

\* C17: a discovery action leaves in the bucket of every kind of its plan exactly the resources
\* its own requests fetched for that kind, in the order fetched, whatever the bucket held before,
\* and leaves the bucket of every other kind as it found it
DiscoveryKeepsLatestFetch ==
    disc_last # None =>
        \A planned \in {Elems(LastPlan)}, k \in CSIPAusResource :
            IF k \in planned
            THEN ResourcesOf(get(store, k)) = FetchedOf(responses, k, Len(responses))
            ELSE get(store, k) = get(disc_last[1].others, k)

\* C17 witness: after the server's data changed, a discovery of EndDevice has refreshed the end
\* devices while the DERs an earlier discovery stored are still those of the old data
RediscoveredEndDevicesOnly ==
    /\ disc_last # None
    /\ disc_last[1].resources = <<"EndDevice">>
    /\ server.version = 1
    /\ get(store, "EndDevice") # <<>>
    /\ \A i \in 1..Len(get(store, "EndDevice")) : get(store, "EndDevice")[i].resource.body = 1
    /\ get(store, "DER") # <<>>
    /\ get(store, "DER")[1].resource.body = 0

\* a href that is neither missing nor empty
HrefSet(href) == href # None /\ href # Some(<<>>)

ParentsOf(kind) == get(store, ParentResource(kind))

\* the stored parents whose link to the kind is set, and those whose link is missing or empty
Linked(kind) == SelectSeq(ParentsOf(kind), LAMBDA sr : HrefSet(get_link_href(sr.resource, kind)))

Unlinked(kind) == SelectSeq(ParentsOf(kind), LAMBDA sr : ~HrefSet(get_link_href(sr.resource, kind)))

\* the positions in the log of the GETs of one href
GetsOf(href) == {j \in 1..Len(responses) : IsGet(responses[j]) /\ responses[j].href = href}

\* the bucket of a singular kind holds one entry per linked parent, in the order of the parents,
\* each the answer to the one GET of that parent's link, and those GETs were made in that order
SingularVisitsParents(kind) ==
    LET linked == Linked(kind)
        bucket == get(store, kind)
        link(i) == get_link_href(linked[i].resource, kind)[1]
    IN /\ Len(bucket) = Len(linked)
       /\ \A i \in 1..Len(linked) :
              /\ Cardinality(GetsOf(link(i))) = 1
              /\ bucket[i].parent = Some(linked[i])
              /\ \A j \in GetsOf(link(i)) : responses[j].body = Some(bucket[i].resource)
       /\ \A i1, i2 \in 1..Len(linked) :
              i1 < i2 => \A j1 \in GetsOf(link(i1)), j2 \in GetsOf(link(i2)) : j1 < j2

\* every GET of the latest discovery asked for the device capability or for the link of a parent
\* that has one
NoFetchWithoutLink(planned) ==
    \A j \in 1..Len(responses) :
        IsGet(responses[j]) =>
            \/ responses[j].href = DcapPath
            \/ \E k \in planned \cap SingularResources :
               \E i \in 1..Len(Linked(k)) :
                   get_link_href(Linked(k)[i].resource, k) = Some(responses[j].href)

\* C18 as stated: singular discovery fetches once per parent whose link is set and appends the
\* answer under that parent, in store order; for a parent whose link is missing or empty it
\* fetches nothing and logs a warning
SingularSkipWarns ==
    disc_last # None =>
        \A planned \in {Elems(LastPlan)} :
            /\ NoFetchWithoutLink(planned)
            /\ \A k \in planned \cap SingularResources :
                   /\ SingularVisitsParents(k)
                   /\ Len(warnings) >= Len(Unlinked(k))

\* C18 amended: singular discovery fetches once per parent whose link is set and appends the
\* answer under that parent, in store order; a parent whose link is missing or empty is skipped
\* without a fetch and without a warning
SingularSkipsSilently ==
    disc_last # None =>
        \A planned \in {Elems(LastPlan)} :
            /\ NoFetchWithoutLink(planned)
            /\ \A k \in planned \cap SingularResources : SingularVisitsParents(k)
            /\ warnings = <<>>

\* C18 witness: DERList was discovered over two end devices, the first without a DERListLink
\* and the second with one, and holds the one list of the second
DiscoveredListOfSecondDevice ==
    /\ disc_last # None
    /\ disc_last[1].resources = <<"DERList">>
    /\ Len(get(store, "EndDevice")) = 2
    /\ ~HrefSet(get_link_href(get(store, "EndDevice")[1].resource, "DERList"))
    /\ HrefSet(get_link_href(get(store, "EndDevice")[2].resource, "DERList"))
    /\ Len(get(store, "DERList")) = 1
    /\ get(store, "DERList")[1].parent = Some(get(store, "EndDevice")[2])

\* the stored list resources of the parent kind that report a href of their own
WithHref(kind) == SelectSeq(ParentsOf(kind), LAMBDA sr : HrefSet(sr.resource.href))

\* the positions in the log of the page requests of one list
PagesOf(href) == {j \in 1..Len(responses) : ~IsGet(responses[j]) /\ responses[j].href = href}

\* the items of the pages of one list among the first n logged responses, in page order
RECURSIVE ItemsPagedFrom(_, _)
ItemsPagedFrom(href, n) ==
    IF n = 0 THEN <<>>
    ELSE ItemsPagedFrom(href, n - 1)
         \o (IF n \in PagesOf(href) /\ responses[n].body # None THEN responses[n].body[1].items
             ELSE <<>>)

\* what the bucket of a list-items kind holds after the first n lists: each item of each list
\* under the stored list resource it was paged from
RECURSIVE ItemsUnderLists(_, _)
ItemsUnderLists(kind, n) ==
    IF n = 0 THEN <<>>
    ELSE LET list == WithHref(kind)[n]
             list_items == ItemsPagedFrom(list.resource.href[1], Len(responses))
         IN ItemsUnderLists(kind, n - 1)
            \o [m \in 1..Len(list_items) |-> [parent |-> Some(list), resource |-> list_items[m]]]

\* C19: list-items discovery pages once through every stored list resource that reports a href,
\* in store order, and stores every item under the list resource it came from in page order; it
\* makes no page request of any other list and no GET of an item
ListItemsPagedPerList ==
    disc_last # None =>
        \A planned \in {Elems(LastPlan)} :
            /\ \A k \in planned \cap ListItemResources :
                   LET lists == WithHref(k)
                       bucket == get(store, k)
                       href(i) == lists[i].resource.href[1]
                   IN /\ [j \in 1..Len(bucket) |-> [parent |-> bucket[j].parent, resource |-> bucket[j].resource]]
                             = ItemsUnderLists(k, Len(lists))
                      /\ \A i \in 1..Len(lists) :
                             /\ PagesOf(href(i)) # {}
                             /\ \A j1, j2 \in PagesOf(href(i)) :
                                    responses[j1].query = responses[j2].query => j1 = j2
                      /\ \A i1, i2 \in 1..Len(lists) :
                             i1 < i2 => \A j1 \in PagesOf(href(i1)), j2 \in PagesOf(href(i2)) : j1 < j2
                      /\ \A j \in 1..Len(bucket) :
                             bucket[j].resource.href # None /\ GetsOf(bucket[j].resource.href[1]) = {}
            /\ \A j \in 1..Len(responses) :
                   ~IsGet(responses[j]) =>
                       \E k \in planned \cap ListItemResources :
                       \E i \in 1..Len(WithHref(k)) : WithHref(k)[i].resource.href = Some(responses[j].href)

\* C19 witness: DER was discovered over two DER lists and holds a DER of the first list followed
\* by a DER of the second
DiscoveredDersOfTwoLists ==
    /\ disc_last # None
    /\ disc_last[1].resources = <<"DER">>
    /\ Len(WithHref("DER")) = 2
    /\ Len(get(store, "DER")) = 2
    /\ get(store, "DER")[1].parent = Some(get(store, "DERList")[1])
    /\ get(store, "DER")[2].parent = Some(get(store, "DERList")[2])


(***************************************************************************)
(* The resource store: order, unknown kinds and the kind of an entry       *)
(***************************************************************************)

\* C21: append_resource puts the new entry behind the entries the bucket of its kind held, each
\* of which keeps its position, and leaves every other bucket as it was; so get returns the
\* entries of a run of appends in the order they were appended
AppendKeepsInsertionOrder ==
    [][StoreStep("append_resource") =>
        LET c == store_last'[1]
        IN /\ get(store', c.type) = Append(get(store, c.type), c.result[1])
           /\ \A i \in 1..Len(get(store, c.type)) : get(store', c.type)[i] = get(store, c.type)[i]
           /\ \A k \in (DOMAIN store \cup DOMAIN store') \ {c.type} : get(store', k) = get(store, k)]_vars

\* C21 witness: an append has just put a second, different end device behind the first while the
\* bucket of the lists holds an entry
AppendedBehindFirst ==
    /\ store_last # None
    /\ store_last[1].op = "append_resource"
    /\ store_last[1].type = "EndDevice"
    /\ Len(get(store, "EndDevice")) = 2
    /\ get(store, "EndDevice")[2] = store_last[1].result[1]
    /\ get(store, "EndDevice")[1].resource # get(store, "EndDevice")[2].resource
    /\ get(store, "EndDeviceList") # <<>>

\* C22: get of a kind the store holds no bucket of is the empty sequence; clear_resource leaves
\* the bucket of its kind empty and every other bucket as it was, and changes nothing at all
\* when the store holds no bucket of that kind
ClearResourceOnlyThatBucket ==
    [][StoreStep("clear_resource") =>
        LET c == store_last'[1]
        IN /\ get(store', c.type) = <<>>
           /\ \A k \in (DOMAIN store \cup DOMAIN store') \ {c.type} : get(store', k) = get(store, k)
           /\ c.type \notin DOMAIN store => store' = store
           /\ \A k \in CSIPAusResource \ DOMAIN store' : get(store', k) = <<>>]_vars

\* C22 witness: clear_resource of the end devices has just run, the store holds no bucket of
\* them and still holds two lists
ClearedBesideOtherBucket ==
    /\ store_last # None
    /\ store_last[1].op = "clear_resource"
    /\ store_last[1].type = "EndDevice"
    /\ "EndDevice" \notin DOMAIN store
    /\ Len(get(store, "EndDeviceList")) = 2

\* C30: every stored resource in the bucket of a kind is of that kind, whatever calls of
\* set_resource, append_resource, upsert_resource, clear, clear_resource and delete_resource
\* the store has seen
BucketHoldsItsKind ==
    \A k \in DOMAIN store : \A i \in 1..Len(store[k]) : store[k][i].type = k

\* C30 witness: a delete_resource has just left one end device behind, stored under a list that
\* is still in its own bucket
DeletedOneOfTwoUnderList ==
    /\ store_last # None
    /\ store_last[1].op = "delete_resource"
    /\ store_last[1].type = "EndDevice"
    /\ Len(get(store, "EndDevice")) = 1
    /\ get(store, "EndDevice")[1].parent # None
    /\ get(store, "EndDeviceList") # <<>>

(***************************************************************************)
(* Resource annotations: ExecutionContext.resource_annotations             *)
(***************************************************************************)
MaxRecords == 2      \* annotation records created by the annotation specification

\* StoredResourceId.from_parent: the id of the parent (optional) and the href
from_parent(parent, href) == [parent |-> parent, href |-> href]

AnnotationHrefs == {"/id1", "/id2"}

\* the parents an id is built from: none, or the resource of the first href
AnnotationParents == {None, Some(from_parent(None, "/id1"))}

AnnotationIds == {from_parent(p, h) : p \in AnnotationParents, h \in AnnotationHrefs}

AnnotationNamespace == {"RESPONSES", "SUBSCRIPTION_RECEIVED"}

AnnotationTags == {"foo"}

AnnotationAliases == {"alias4"}

\* StoredResourceAnnotations(): no alias, no tags
StoredResourceAnnotations == [alias |-> None, tag_creations |-> [ns \in {} |-> {}]]

\* StoredResourceAnnotations.add_tag
add_tag(a, ns, tag) ==
    [a EXCEPT !.tag_creations =
        [k \in (DOMAIN @) \cup {ns} |-> IF k = ns
                                        THEN (IF ns \in DOMAIN @ THEN @[ns] ELSE {}) \cup {tag}
                                        ELSE @[k]]]

\* StoredResourceAnnotations.has_tag
has_tag(a, ns, tag) == ns \in DOMAIN a.tag_creations /\ tag \in a.tag_creations[ns]

\* the positions of the table whose record is kept under an id
RecordsOf(table, id) == {i \in 1..Len(table) : table[i].id = id}

\* a lookup that goes by the href alone
RecordsOfHref(table, id) == {i \in 1..Len(table) : table[i].id.href = id.href}

\* a resource_annotations that finds a record by the href of the id alone
resource_annotationsByHref(table, id) ==
    LET found == RecordsOfHref(table, id)
    IN IF found = {}
       THEN [table |-> Append(table, [id |-> id, annotations |-> StoredResourceAnnotations]),
             handle |-> Len(table) + 1, created |-> TRUE]
       ELSE [table |-> table, handle |-> CHOOSE i \in found : \A j \in found : i <= j, created |-> FALSE]

\* ExecutionContext.resource_annotations: the record kept under the id, created on first access;
\* handle is the record object returned
resource_annotations(table, id) ==
    LET found == RecordsOf(table, id)
    IN IF found = {}
       THEN [table |-> Append(table, [id |-> id, annotations |-> StoredResourceAnnotations]),
             handle |-> Len(table) + 1, created |-> TRUE]
       ELSE [table |-> table, handle |-> CHOOSE i \in found : \A j \in found : i <= j, created |-> FALSE]

\* a record of one resource_annotations call: the id, the record object returned and what it
\* held on return, and what the caller then did with it
AnnotationCall(op, id, r, value) ==
    [op |-> op, id |-> id, handle |-> r.handle, created |-> r.created,
     returned |-> r.table[r.handle].annotations, value |-> value]

\* the ids a caller may ask for: those with a record, and new ones while the table may grow
Askable(id) == RecordsOf(annotations, id) # {} \/ Len(annotations) < MaxRecords

\* resource_annotations(step, id), the record only read
AnnotationsFetch ==
    /\ \E id \in AnnotationIds : \E r \in {resource_annotations(annotations, id)} :
        /\ Askable(id)
        /\ annotations' = r.table
        /\ annotations_last' = Some(AnnotationCall("fetch", id, r, None))
    /\ UNCHANGED <<schedulerVars, engineVars, storeVars, planVars, pageVars, trackerVars, discoveryVars,
                   evaluation, polling_window, notificationVars>>

\* resource_annotations(step, id).alias = alias
AnnotationsSetAlias ==
    /\ \E id \in AnnotationIds : \E alias \in AnnotationAliases :
       \E r \in {resource_annotations(annotations, id)} :
        /\ Askable(id)
        /\ annotations' = [r.table EXCEPT ![r.handle].annotations.alias = Some(alias)]
        /\ annotations_last' = Some(AnnotationCall("alias", id, r, <<alias>>))
    /\ UNCHANGED <<schedulerVars, engineVars, storeVars, planVars, pageVars, trackerVars, discoveryVars,
                   evaluation, polling_window, notificationVars>>

\* resource_annotations(step, id).add_tag(ns, tag)
AnnotationsAddTag ==
    /\ \E id \in AnnotationIds : \E ns \in AnnotationNamespace : \E tag \in AnnotationTags :
       \E r \in {resource_annotations(annotations, id)} :
        /\ Askable(id)
        /\ annotations' = [r.table EXCEPT ![r.handle].annotations = add_tag(@, ns, tag)]
        /\ annotations_last' = Some(AnnotationCall("add_tag", id, r, <<ns, tag>>))
    /\ UNCHANGED <<schedulerVars, engineVars, storeVars, planVars, pageVars, trackerVars, discoveryVars,
                   evaluation, polling_window, notificationVars>>

AnnotationsInit ==
    /\ items = <<>>
    /\ now = BaseTime
    /\ last = Call("init", BaseTime, <<>>, None)
    /\ EngineIdleInit
    /\ ResourceIdleInit

AnnotationsNext == AnnotationsFetch \/ AnnotationsSetAlias \/ AnnotationsAddTag

AnnotationsSpec == AnnotationsInit /\ [][AnnotationsNext]_vars

\* what a holder of an id reads: the annotations of the record resource_annotations returns
ReadThrough(table, id) ==
    LET r == resource_annotations(table, id) IN r.table[r.handle].annotations

\* a step of the annotation specification that changed the state
AnnotationsStep ==
    /\ annotations_last' # None
    /\ <<annotations, annotations_last>>' # <<annotations, annotations_last>>

\* C23: resource_annotations is get-or-create by the value of the id. A record it creates has
\* no alias and no tags, and it creates one only when the table holds none under an equal id;
\* the record it returns is the one kept under the id asked for, so that what one holder sets
\* (an alias, a tag) is read by every holder of an id built from an equal parent and an equal
\* href; and a holder of an id that differs in href or in parent reads what it read before
AnnotationsKeyedByIdentity ==
    [][AnnotationsStep =>
        LET c == annotations_last'[1]
        IN /\ c.created <=> RecordsOf(annotations, c.id) = {}
           /\ c.created => c.returned.alias = None /\ DOMAIN c.returned.tag_creations = {}
           /\ ~c.created => c.returned = ReadThrough(annotations, c.id)
           /\ annotations'[c.handle].id = c.id
           /\ \A i, j \in 1..Len(annotations') : annotations'[i].id = annotations'[j].id => i = j
           /\ \A p \in AnnotationParents : \A h \in AnnotationHrefs :
                IF p = c.id.parent /\ h = c.id.href
                THEN /\ c.op = "alias" => ReadThrough(annotations', from_parent(p, h)).alias = Some(c.value[1])
                     /\ c.op = "add_tag" =>
                            has_tag(ReadThrough(annotations', from_parent(p, h)), c.value[1], c.value[2])
                     /\ c.op = "fetch" => ReadThrough(annotations', from_parent(p, h)) = c.returned
                ELSE \/ RecordsOf(annotations, from_parent(p, h)) = {}
                                /\ RecordsOf(annotations', from_parent(p, h)) = {}
                     \/ RecordsOf(annotations, from_parent(p, h)) # {}
                                /\ RecordsOf(annotations', from_parent(p, h)) # {}
                                /\ ReadThrough(annotations', from_parent(p, h))
                                        = ReadThrough(annotations, from_parent(p, h))]_vars

\* C23 witness: an alias has just been set through the id of /id2 under /id1, whose record was
\* there before and is read through an id built anew from equal parts, while the records of
\* /id2 itself holds none
AliasSharedByEqualIds ==
    /\ annotations_last # None
    /\ annotations_last[1].op = "alias"
    /\ ~annotations_last[1].created
    /\ annotations_last[1].id = from_parent(Some(from_parent(None, "/id1")), "/id2")
    /\ annotations_last[1].value = <<"alias4">>
    /\ Len(annotations) = 2
    /\ RecordsOf(annotations, from_parent(None, "/id2")) # {}
    /\ ReadThrough(annotations, from_parent(None, "/id2")).alias = None
    /\ ReadThrough(annotations, from_parent(Some(from_parent(None, "/id1")), "/id2")).alias = Some("alias4")

(***************************************************************************)
(* The evaluation of a finished run: render_console                        *)
(***************************************************************************)
MaxLogged == 2       \* warnings, and responses, logged by an evaluated run

\* what ServerResponse.xsd_errors holds: nothing, an empty list or a list of errors
XsdErrors == {None, Some(<<>>), Some(<<"has error">>)}

\* a ServerResponse as far as the evaluation reads it
EvaluatedResponse(xsd_errors) == [xsd_errors |-> xsd_errors]

\* the StepResult the tracker holds for a step: passed, failed checks, or an exception
StepResultsOf(s) ==
    {[step |-> s, failure_result |-> None, exc |-> None],
     [step |-> s, failure_result |-> Some(CheckResult(FALSE, None)), exc |-> None],
     [step |-> s, failure_result |-> None, exc |-> Some("CactusClientException")]}

\* the step_results of a tracker: at most one result per step of the procedure, in step order
RECURSIVE StepResultLists(_)
StepResultLists(n) ==
    IF n = 0 THEN {<<>>}
    ELSE StepResultLists(n - 1) \cup {Append(rs, r) : rs \in StepResultLists(n - 1), r \in StepResultsOf(n)}

\* the warnings of a tracker
WarningLists == {[i \in 1..n |-> "Added a warning"] : n \in 0..MaxLogged}

\* the responses of a tracker
ResponseLists == UNION {[1..n -> {EvaluatedResponse(x) : x \in XsdErrors}] : n \in 0..MaxLogged}

\* bool(xsd_errors)
HasXsdErrors(r) == Truthy(r.xsd_errors)

\* render_console: the figures of the report and its verdict
render_console(execute_result, results, warns, resps) ==
    LET all_steps_passed == \A i \in 1..Len(results) : is_passed(results[i])
        total_warnings == Len(warns)
        total_xsd_errors == Cardinality({i \in 1..Len(resps) : HasXsdErrors(resps[i])})
    IN [all_steps_passed |-> all_steps_passed,
        total_warnings |-> total_warnings,
        total_xsd_errors |-> total_xsd_errors,
        successful_steps |-> Cardinality({i \in 1..Len(results) : is_passed(results[i])}),
        success |-> /\ execute_result.completed
                    /\ all_steps_passed
                    /\ total_warnings = 0
                    /\ total_xsd_errors = 0]

\* the report is rendered for the context once the run has ended
Evaluate ==
    /\ evaluation = None
    /\ evaluation' = Some(render_console(execution_result[1], step_results, warnings, responses))
    /\ UNCHANGED <<schedulerVars, engineVars, storeVars, planVars, pageVars, trackerVars, discoveryVars,
                   annotations, annotations_last, polling_window, notificationVars>>

\* a finished run: its ExecutionResult and what its trackers hold
EvaluationInit ==
    /\ items = <<>>
    /\ now = BaseTime
    /\ last = Call("init", BaseTime, <<>>, None)
    /\ pc = "done"
    /\ next_step = None
    /\ phase = [s \in Steps |-> "idle"]
    /\ action_result = None
    /\ current_step_execution = None
    /\ current_set = FALSE
    /\ step_execution_progress = <<>>
    /\ step_results \in StepResultLists(NumSteps)
    /\ execution_result \in {Some(ExecutionResult(c)) : c \in BOOLEAN}
    /\ collaborator_exc = None
    /\ action_calls = [s \in Steps |-> 0]
    /\ check_calls = [s \in Steps |-> 0]
    /\ repeat_until_pass = [s \in Steps |-> FALSE]
    /\ repeat_delay = 0
    /\ tui = "cancelled"
    /\ entry = "reported"
    /\ tui_finished_first = FALSE
    /\ store = EmptyStore
    /\ store_last = None
    /\ target_resources = <<>>
    /\ plan_calls = <<>>
    /\ page_pc = "off"
    /\ start = 0
    /\ pages_requested = 0
    /\ every_all_value = <<>>
    /\ all_received_items = <<>>
    /\ max_pages_requested = 0
    /\ warnings \in WarningLists
    /\ responses \in ResponseLists
    /\ server = [devices |-> <<>>, version |-> 0]
    /\ disc_last = None
    /\ ContextIdleInit

EvaluationNext == Evaluate

EvaluationSpec == EvaluationInit /\ [][EvaluationNext]_vars

\* the steps of the procedure that have a recorded result
StepsWithResult == {step_results[i].step : i \in 1..Len(step_results)}

ExecutionFinished == pc \in {"done", "raised"}

\* C25, as stated: when the UI task finished before the execution task, run_entrypoint raises
\* CactusClientException once its wait has returned and renders no results
UiFirstNeverReports ==
    tui_finished_first /\ entry # "waiting" => entry = "ui_exited"

\* C25: both tasks run until run_entrypoint's wait returns, which it does only once one of them
\* has finished. If the execution task has not finished by then (the UI task has, for whatever
\* reason), run_entrypoint raises CactusClientException and renders nothing; if it has, also
\* when the UI task had finished before it, a UI task still running is cancelled and the
\* result of the execution task is used (its ExecutionResult rendered, its error raised)
WaitDecidesByExecutionTask ==
    [][entry = "waiting" /\ entry' # "waiting" =>
        /\ ExecutionFinished \/ tui = "exited"
        /\ ~ExecutionFinished => entry' = "ui_exited" /\ execution_result = None /\ tui' = "exited"
        /\ ExecutionFinished =>
            /\ tui' = IF tui = "running" THEN "cancelled" ELSE "exited"
            /\ pc = "done" => entry' = "reported" /\ execution_result # None
            /\ pc = "raised" => entry' = "raised"
        /\ UNCHANGED <<pc, execution_result, step_results, step_execution_progress>>]_vars

\* C25 witness: the results of a run whose second step passed are reported although the UI task
\* had exited, the execution task having finished before the wait returned
ReportedWithUiExited ==
    /\ entry = "reported"
    /\ tui = "exited"
    /\ execution_result = Some(ExecutionResult(TRUE))
    /\ Len(step_results) = NumSteps

(***************************************************************************)
(* The polling window: calculate_wait_next_polling_window                  *)
(***************************************************************************)
MaxSeconds == 120    \* seconds past PollEpoch at which the polling window is calculated

MaxDcaps == 2        \* DeviceCapability entries in the store of the polling specification

DefaultPollRate == 60

\* an instant of the run as int(now.timestamp()): midnight of 2025-11-05 UTC
PollEpoch == 1762300800

\* what DeviceCapability.pollRate may hold: nothing, or a number of seconds
PollRates == {None, Some(0), Some(30), Some(60), Some(120)}

\* the instants of the calls: the first minute of 1970 as in the tests, and the seconds from PollEpoch on
PollInstants == {0, 15, 30, 45, 59, 60} \cup {PollEpoch + d : d \in 0..MaxSeconds}

\* a DeviceCapability as the server returned it
DeviceCapabilityResponse(pollRate) == Resource(Some(DcapPath), [pollRate |-> pollRate], NoLinks)

\* the stores of the polling specification: DeviceCapability appended any number of times
RECURSIVE DcapStores(_)
DcapStores(n) ==
    IF n = 0 THEN {EmptyStore}
    ELSE DcapStores(n - 1) \cup
         {append_resource(st, BaseTime, "DeviceCapability", None, DeviceCapabilityResponse(p)).store :
            st \in DcapStores(n - 1), p \in PollRates}

\* x or y on optional numbers: y when x is None or 0
OrElse(x, y) == IF x = None THEN y ELSE IF x[1] = 0 THEN y ELSE x[1]

\* a calculation that counts from the last boundary: zero on a boundary
calculate_wait_next_polling_windowModulo(now_seconds, discovered_resources) ==
    LET dcaps == get(discovered_resources, "DeviceCapability")
        poll_rate_seconds == IF Len(dcaps) = 0 THEN DefaultPollRate
                             ELSE OrElse(dcaps[1].resource.body.pollRate, DefaultPollRate)
    IN (poll_rate_seconds - (now_seconds % poll_rate_seconds)) % poll_rate_seconds

calculate_wait_next_polling_window(now_seconds, discovered_resources) ==
    LET dcaps == get(discovered_resources, "DeviceCapability")
        poll_rate_seconds == IF Len(dcaps) = 0 THEN DefaultPollRate
                             ELSE OrElse(dcaps[1].resource.body.pollRate, DefaultPollRate)
    IN poll_rate_seconds - (now_seconds % poll_rate_seconds)

PollCalculate ==
    /\ polling_window = None
    /\ polling_window' = Some([now |-> now, wait |-> calculate_wait_next_polling_window(now, store)])
    /\ UNCHANGED <<schedulerVars, engineVars, storeVars, planVars, pageVars, trackerVars, discoveryVars,
                   annotations, annotations_last, evaluation, notificationVars>>

PollInit ==
    /\ items = <<>>
    /\ now \in PollInstants
    /\ last = Call("init", BaseTime, <<>>, None)
    /\ EngineIdleInit
    /\ store \in DcapStores(MaxDcaps)
    /\ store_last = None
    /\ target_resources = <<>>
    /\ plan_calls = <<>>
    /\ page_pc = "off"
    /\ start = 0
    /\ pages_requested = 0
    /\ every_all_value = <<>>
    /\ all_received_items = <<>>
    /\ max_pages_requested = 0
    /\ warnings = <<>>
    /\ responses = <<>>
    /\ server = [devices |-> <<>>, version |-> 0]
    /\ disc_last = None
    /\ ContextIdleInit

PollNext == PollCalculate

PollSpec == PollInit /\ [][PollNext]_vars

\* the pollRate of the first stored DeviceCapability, if one is stored
FirstPollRate ==
    IF get(store, "DeviceCapability") = <<>> THEN None
    ELSE get(store, "DeviceCapability")[1].resource.body.pollRate

\* C26, as stated: with pollRate that of the first stored DeviceCapability, or 60 when none is
\* stored or its pollRate is unset, the delay is in 1..pollRate and equals
\* pollRate - (now mod pollRate)
WaitFromStatedPollRate ==
    polling_window # None =>
        \A pollRate \in {IF FirstPollRate = None THEN DefaultPollRate ELSE FirstPollRate[1]} :
            /\ polling_window[1].wait \in 1..pollRate
            /\ pollRate > 0 => polling_window[1].wait = pollRate - (now % pollRate)

\* C26: with pollRate that of the first stored DeviceCapability, or 60 when none is stored or its
\* pollRate is unset or 0, the delay equals pollRate - (now mod pollRate): it is in 1..pollRate,
\* it ends on the first multiple of pollRate after now, and on a boundary it is a full pollRate
WaitUntilNextBoundary ==
    polling_window # None =>
        \A pollRate \in {IF FirstPollRate \in {None, Some(0)} THEN DefaultPollRate ELSE FirstPollRate[1]} :
            /\ polling_window[1].wait = pollRate - (now % pollRate)
            /\ polling_window[1].wait \in 1..pollRate
            /\ (now + polling_window[1].wait) % pollRate = 0
            /\ now % pollRate = 0 => polling_window[1].wait = pollRate

\* C26 witness: on a boundary of the 120 seconds of the first DeviceCapability, with a second one
\* of 30 seconds stored behind it, the delay is the full 120 seconds
FullWindowOnBoundary ==
    /\ polling_window # None
    /\ Len(get(store, "DeviceCapability")) = 2
    /\ FirstPollRate = Some(120)
    /\ get(store, "DeviceCapability")[2].resource.body.pollRate = Some(30)
    /\ now > PollEpoch
    /\ now % 120 = 0
    /\ polling_window[1].wait = 120

(***************************************************************************)
(* The scheduler: equal primacies                                          *)
(***************************************************************************)
\* the positions of the items that are eligible at t and whose primacy no eligible item undercuts
MinEligible(its, t) ==
    {i \in 1..Len(its) :
        /\ Eligible(its[i], t)
        /\ \A j \in 1..Len(its) : Eligible(its[j], t) => ~PrimacyLess(its[j].primacy, its[i].primacy)}

\* the lowest of a set of positions: the item added earliest
Earliest(positions) == CHOOSE i \in positions : \A j \in positions : i <= j

\* a list without the item at position i
RemoveAt(its, i) == SubSeq(its, 1, i - 1) \o SubSeq(its, i + 1, Len(its))

\* C27: whenever peek or pop returns an item, it is the one added earliest among the eligible
\* items of minimum primacy; pop leaves the list without exactly that item, the others in their
\* order, peek and a pop that returns none leave the list as it was; and of two items of equal
\* primacy returned by successive pops, both eligible at the first, the first returned was
\* added before the second
TiesInOrderAdded ==
    [][/\ last'.op \in {"pop", "peek"} =>
            IF last'.result = None
            THEN items' = items
            ELSE \E first \in {Earliest(MinEligible(items, last'.now))} :
                    /\ MinEligible(items, last'.now) # {}
                    /\ last'.result[1] = items[first]
                    /\ items' = IF last'.op = "pop" THEN RemoveAt(items, first) ELSE items
       /\ (/\ last.op = "pop" /\ last'.op = "pop"
           /\ IF last.result # None /\ last'.result # None
              THEN /\ last.result[1].primacy = last'.result[1].primacy
                   /\ Eligible(last'.result[1], last.now)
              ELSE FALSE)
            => Earliest(MinEligible(last.before, last.now)) <= Earliest(MinEligible(items, last'.now))]_vars

\* C27 witness: of two different eligible items of one primacy, pop has returned the one added
\* first and left the other
PoppedFirstOfTie ==
    /\ last.op = "pop"
    /\ last.result # None
    /\ Len(last.before) = 2
    /\ last.before[1].primacy = last.before[2].primacy
    /\ last.before[1] # last.before[2]
    /\ Eligible(last.before[1], last.now) /\ Eligible(last.before[2], last.now)
    /\ last.result[1] = last.before[1]
    /\ items = <<last.before[2]>>

(***************************************************************************)
(* The engine: delayed steps                                               *)
(***************************************************************************)
\* the steps of the attempts logged so far, in the order they completed
CompletionOrder == [i \in 1..Len(step_execution_progress) |-> step_execution_progress[i].step_execution.source]

\* the first attempt was step 1, whose action asked for a repeat not before a later instant and
\* whose checks passed
FirstStepDelayed ==
    /\ Len(step_execution_progress) >= 1
    /\ CompletionOrder[1] = 1
    /\ step_execution_progress[1].action_result[1] = ActionResult(TRUE, Some(BaseTime + 1))
    /\ step_execution_progress[1].check_result[1].passed

\* the attempt at position i was a first attempt that passed with no repeat asked for
PassedAtOnce(i) ==
    /\ step_execution_progress[i].step_execution.attempts = 0
    /\ ~step_execution_progress[i].action_result[1].repeat
    /\ step_execution_progress[i].check_result[1].passed

\* C28: the engine lets time pass only while its scheduler holds items none of which is
\* eligible, and then only until the earliest not_before; the step it executes is eligible at
\* the instant it is popped, also while an item of lower primacy is still gated; and after a
\* step 1 that asked for one delayed repeat, the ready steps behind it are executed next, in
\* their order, and step 1 again after them, not before the instant it asked for (with two
\* steps: 1, 2, 1)
SuspendsOnlyWhenNothingEligible ==
    [][/\ now' # now =>
            /\ items # <<>>
            /\ EligibleAt(items, now) = {}
            /\ EligibleAt(items, now') # {}
            /\ \A t \in now..(now' - 1) : EligibleAt(items, t) = {}
            /\ UNCHANGED <<items, next_step, step_execution_progress>>
       /\ next_step' # None => Eligible(next_step'[1], now')
       /\ (next_step = None /\ next_step' # None) =>
            /\ next_step'[1] \in EligibleAt(items, now)
            /\ \A e \in EligibleAt(items, now) : ~PrimacyLess(e.primacy, next_step'[1].primacy)
       /\ FirstStepDelayed' =>
            \A i \in 2..Len(step_execution_progress') :
                (\A j \in 2..(i - 1) : PassedAtOnce(j)') =>
                    IF i <= NumSteps
                    THEN CompletionOrder'[i] = i
                    ELSE /\ CompletionOrder'[i] = 1
                         /\ step_execution_progress'[i].step_execution.not_before = Some(BaseTime + 1)
                         /\ now' >= BaseTime + 1
       /\ (FirstStepDelayed' /\ pc' = "done" /\ \A i \in 1..Len(step_results') : is_passed(step_results'[i])) =>
            \E i \in 1..Len(step_execution_progress') :
                /\ CompletionOrder'[i] = 1
                /\ step_execution_progress'[i].step_execution.repeat_number = 1]_vars

\* C28 witness: the run has ended with the attempts 1, 2, 1, the repeat of step 1 having waited
\* for the instant its first attempt asked for while step 2 was executed
DelayedRepeatRanLast ==
    /\ pc = "done"
    /\ FirstStepDelayed
    /\ CompletionOrder = <<1, 2, 1>>
    /\ PassedAtOnce(2)
    /\ step_execution_progress[3].step_execution.not_before = Some(BaseTime + 1)
    /\ now = BaseTime + 1
    /\ Len(step_results) = NumSteps
    /\ \A i \in 1..Len(step_results) : is_passed(step_results[i])

(***************************************************************************)
(* The resource store: ancestors and descendants                           *)
(***************************************************************************)
\* the kinds the lineage specification stores: a list, its members, a list under each member,
\* and a list of another subtree
LineageKinds == {"EndDeviceList", "EndDevice", "DERList", "MirrorUsagePointList"}

\* the payloads of a kind: the end device list in either of two bodies, two end devices
LineageResources(type) ==
    CASE type = "EndDeviceList" -> {Resource(Some(<<"edev">>), b, NoLinks) : b \in StoreBodies}
      [] type = "EndDevice" -> {Resource(Some(<<"edev", n>>), 1, NoLinks) : n \in {1, 2}}
      [] type = "DERList" -> {Resource(Some(<<"der">>), 1, NoLinks)}
      [] OTHER -> {Resource(Some(<<"mup">>), 1, NoLinks)}

\* the parents a caller names: none for the two top lists, else a stored resource of the parent kind
LineageParents(type) ==
    IF type \in {"EndDevice", "DERList"}
    THEN {Some(get(store, ParentResource(type))[i]) : i \in 1..Len(get(store, ParentResource(type)))}
    ELSE {None}

\* whether the chain of parents of a stored resource passes through the identity of parent
RECURSIVE HasAncestor(_, _)
HasAncestor(sr, parent) ==
    IF sr.parent = None THEN FALSE
    ELSE IF StoredResourceId(sr.parent[1]) = StoredResourceId(parent) THEN TRUE
    ELSE HasAncestor(sr.parent[1], parent)

\* a lookup that stops at the direct parent
get_descendents_ofDirect(st, type, parent) ==
    LET IsChild(sr) == IF sr.parent = None THEN FALSE
                       ELSE StoredResourceId(sr.parent[1]) = StoredResourceId(parent)
    IN SelectSeq(get(st, type), IsChild)

\* the stored resources of a kind that list parent in their hierarchy, in store order
get_descendents_of(st, type, parent) ==
    LET IsDescendent(sr) == HasAncestor(sr, parent)
    IN SelectSeq(get(st, type), IsDescendent)

\* get_for_id: the stored resource of an identity, the first in its bucket, or None
get_for_id(st, id) ==
    LET hits(k) == SelectSeq(st[k], LAMBDA sr : StoredResourceId(sr) = id)
        kinds == {k \in DOMAIN st : hits(k) # <<>>}
    IN IF kinds = {} THEN None ELSE Some(hits(CHOOSE k \in kinds : TRUE)[1])

\* get_ancestor_of: the parent links are walked from id until a stored resource of the kind is
\* found or the chain is exhausted
RECURSIVE get_ancestor_of(_, _, _)
get_ancestor_of(st, type, id) ==
    IF id.parent = None THEN None
    ELSE LET above == get_for_id(st, id.parent[1])
         IN IF (IF above = None THEN FALSE ELSE above[1].type = type) THEN above
            ELSE get_ancestor_of(st, type, id.parent[1])

\* a record of one lookup, kept to state what the lookup returned
LineageCall(op, type, of, result) == [op |-> op, type |-> type, of |-> of, result |-> result]

LineageUpsertResource ==
    /\ \E type \in LineageKinds : \E parent \in LineageParents(type) : \E resource \in LineageResources(type) :
        LET r == upsert_resource(store, now, type, parent, resource)
        IN /\ store' = r.store
           /\ store_last' = Some(StoreCall("upsert_resource", type, Some(r.result)))
    /\ UNCHANGED <<schedulerVars, engineVars, planVars, pageVars, trackerVars, discoveryVars, contextVars>>

LineageClearResource ==
    /\ \E type \in LineageKinds :
        /\ store' = clear_resource(store, type)
        /\ store_last' = Some(StoreCall("clear_resource", type, None))
    /\ UNCHANGED <<schedulerVars, engineVars, planVars, pageVars, trackerVars, discoveryVars, contextVars>>

\* get_descendents_of for a kind and a stored resource the caller read from the store
LineageGetDescendentsOf ==
    /\ \E type \in LineageKinds : \E held \in LineageKinds : \E i \in 1..Len(get(store, held)) :
        store_last' = Some(LineageCall("get_descendents_of", type, get(store, held)[i],
                                       get_descendents_of(store, type, get(store, held)[i])))
    /\ UNCHANGED <<schedulerVars, engineVars, store, planVars, pageVars, trackerVars, discoveryVars,
                   contextVars>>

\* get_ancestor_of for a kind and the identity of a stored resource the caller read from the store
LineageGetAncestorOf ==
    /\ \E type \in LineageKinds : \E held \in LineageKinds : \E i \in 1..Len(get(store, held)) :
        store_last' = Some(LineageCall("get_ancestor_of", type, get(store, held)[i],
                                       get_ancestor_of(store, type, StoredResourceId(get(store, held)[i]))))
    /\ UNCHANGED <<schedulerVars, engineVars, store, planVars, pageVars, trackerVars, discoveryVars,
                   contextVars>>

LineageInit == StoreInit

LineageNext ==
    \/ LineageUpsertResource
    \/ LineageClearResource
    \/ LineageGetDescendentsOf
    \/ LineageGetAncestorOf

LineageSpec == LineageInit /\ [][LineageNext]_vars

\* the identities on the chain of parents of an identity
RECURSIVE AncestorIds(_)
AncestorIds(id) == IF id.parent = None THEN {} ELSE {id.parent[1]} \cup AncestorIds(id.parent[1])

\* the kinds above a kind in the resource tree
KindsAbove(type) == {k \in CSIPAusResource : k # type /\ \E i \in 1..Len(rsearch(RESOURCE_TREE, type)) :
                                                              rsearch(RESOURCE_TREE, type)[i] = k}

\* C31: get_descendents_of(kind, of) returns the entries of the bucket of kind whose chain of
\* parent identities holds the identity of of, at whatever depth, each once and in the order of
\* the bucket; every entry returned is of that kind; and nothing is returned for a resource whose
\* kind is not above the requested kind in the tree (the kind itself, one below it, or one of
\* another subtree)
DescendentsAreThoseThroughId ==
    (IF store_last = None THEN FALSE ELSE store_last[1].op = "get_descendents_of") =>
        LET c == store_last[1]
            bucket == get(store, c.type)
            through == {i \in 1..Len(bucket) :
                            StoredResourceId(c.of) \in AncestorIds(StoredResourceId(bucket[i]))}
        IN /\ Len(c.result) = Cardinality(through)
           /\ \E f \in [1..Len(c.result) -> through] :
                /\ \A j, k \in 1..Len(c.result) : j < k => f[j] < f[k]
                /\ \A k \in 1..Len(c.result) : c.result[k] = bucket[f[k]]
           /\ \A k \in 1..Len(c.result) : c.result[k].type = c.type
           /\ c.of.type \notin KindsAbove(c.type) => c.result = <<>>

\* C31 witness: the lists of two end devices, stored second device first, are returned for the
\* end device list two levels up, in the order of their bucket
ListsOfBothDevicesInStoreOrder ==
    /\ store_last # None
    /\ store_last[1].op = "get_descendents_of"
    /\ store_last[1].type = "DERList"
    /\ store_last[1].of.type = "EndDeviceList"
    /\ Len(store_last[1].result) = 2
    /\ store_last[1].result = get(store, "DERList")
    /\ store_last[1].result[1].parent[1].resource.href = Some(<<"edev", 2>>)
    /\ store_last[1].result[2].parent[1].resource.href = Some(<<"edev", 1>>)

(***************************************************************************)
(* Resource annotations and the store operations                           *)
(***************************************************************************)
\* the payloads of the annotated store: one list, and one member of it in either of two bodies
AnnotatedResources(type) ==
    IF type = "EndDevice"
    THEN {Resource(Some(<<"a">>), b, NoLinks) : b \in StoreBodies}
    ELSE {Resource(Some(<<"edev">>), 1, NoLinks)}

\* the ids of the resources the store holds
StoredIds ==
    UNION {{StoredResourceId(get(store, type)[i]) : i \in 1..Len(get(store, type))} : type \in StoreKinds}

\* the ids a caller holds: those of the stored resources and those it asked about before
HeldIds == StoredIds \cup {annotations[i].id : i \in 1..Len(annotations)}

\* the member is upserted under the stored list, the list under no parent
AnnotatedUpsertResource ==
    /\ \E type \in StoreKinds : \E parent \in StoreParents(type) : \E resource \in AnnotatedResources(type) :
        LET r == upsert_resource(store, now, type, parent, resource)
        IN /\ type = "EndDevice" => parent # None
           /\ store' = r.store
           /\ store_last' = Some(StoreCall("upsert_resource", type, Some(r.result)))
    /\ UNCHANGED <<schedulerVars, engineVars, planVars, pageVars, trackerVars, discoveryVars, contextVars>>

\* a clear_resource that takes the annotation records of the entries with it
AnnotatedClearResourceWithRecords ==
    /\ \E type \in StoreKinds :
        LET gone == {StoredResourceId(get(store, type)[i]) : i \in 1..Len(get(store, type))}
            Kept(rec) == rec.id \notin gone
        IN /\ store' = clear_resource(store, type)
           /\ store_last' = Some(StoreCall("clear_resource", type, None))
           /\ annotations' = SelectSeq(annotations, Kept)
    /\ UNCHANGED <<schedulerVars, engineVars, planVars, pageVars, trackerVars, discoveryVars,
                   annotations_last, evaluation, polling_window, notificationVars>>

AnnotatedClearResource ==
    /\ \E type \in StoreKinds :
        /\ store' = clear_resource(store, type)
        /\ store_last' = Some(StoreCall("clear_resource", type, None))
    /\ UNCHANGED <<schedulerVars, engineVars, planVars, pageVars, trackerVars, discoveryVars, contextVars>>

\* resource_annotations(step, id) for an id the caller holds, the record only read
AnnotatedFetch ==
    /\ \E id \in HeldIds : \E r \in {resource_annotations(annotations, id)} :
        /\ annotations' = r.table
        /\ annotations_last' = Some(AnnotationCall("fetch", id, r, None))
    /\ UNCHANGED <<schedulerVars, engineVars, storeVars, planVars, pageVars, trackerVars, discoveryVars,
                   evaluation, polling_window, notificationVars>>

\* resource_annotations(step, sr.id).alias = alias for a stored resource
AnnotatedSetAlias ==
    /\ \E id \in StoredIds : \E alias \in AnnotationAliases :
       \E r \in {resource_annotations(annotations, id)} :
        /\ annotations' = [r.table EXCEPT ![r.handle].annotations.alias = Some(alias)]
        /\ annotations_last' = Some(AnnotationCall("alias", id, r, <<alias>>))
    /\ UNCHANGED <<schedulerVars, engineVars, storeVars, planVars, pageVars, trackerVars, discoveryVars,
                   evaluation, polling_window, notificationVars>>

\* resource_annotations(step, sr.id).add_tag(ns, tag) for a stored resource
AnnotatedAddTag ==
    /\ \E id \in StoredIds : \E ns \in AnnotationNamespace : \E tag \in AnnotationTags :
       \E r \in {resource_annotations(annotations, id)} :
        /\ annotations' = [r.table EXCEPT ![r.handle].annotations = add_tag(@, ns, tag)]
        /\ annotations_last' = Some(AnnotationCall("add_tag", id, r, <<ns, tag>>))
    /\ UNCHANGED <<schedulerVars, engineVars, storeVars, planVars, pageVars, trackerVars, discoveryVars,
                   evaluation, polling_window, notificationVars>>

AnnotatedInit == StoreInit

AnnotatedNext ==
    \/ AnnotatedUpsertResource
    \/ AnnotatedClearResource
    \/ AnnotatedFetch
    \/ AnnotatedSetAlias
    \/ AnnotatedAddTag

AnnotatedSpec == AnnotatedInit /\ [][AnnotatedNext]_vars

ParsedPages == {i \in 1..Len(responses) : responses[i].body # None}

\* the warnings one parsed page calls for: its results attribute missing or different from the
\* number of its items, its all attribute missing
PageWarningCount(i) ==
    LET page == responses[i].body[1]
    IN (IF page.results # Some(Len(page.items)) THEN 1 ELSE 0) + (IF page.all_ = None THEN 1 ELSE 0)

RECURSIVE PageWarningsUpTo(_)
PageWarningsUpTo(n) ==
    IF n = 0 THEN 0
    ELSE PageWarningsUpTo(n - 1) + (IF n \in ParsedPages THEN PageWarningCount(n) ELSE 0)

\* the totals the parsed pages reported
ReportedTotals == {responses[i].body[1].all_[1] : i \in {j \in ParsedPages : responses[j].body[1].all_ # None}}

\* what holds of the warnings whatever the pages report: the items are those of the pages, each
\* page adds the warnings it calls for and nothing else is added while the pages are fetched, and
\* a pagination that returns adds one more warning exactly when the totals reported varied
WarningsPerPageAndVariedTotal ==
    /\ page_pc \in {"running", "returned"} => all_received_items = ItemsOfPages(Len(responses))
    /\ page_pc # "returned" => Len(warnings) = PageWarningsUpTo(Len(responses))
    /\ page_pc = "returned" =>
           Len(warnings) = PageWarningsUpTo(Len(responses)) + (IF Cardinality(ReportedTotals) > 1 THEN 1 ELSE 0)

\* C33, as stated: consistency problems only add warnings and leave the items alone, page by
\* page and once for a total that varied; and a list that was returned, each of whose pages
\* reported its own count and the same total, a total that differs from the number of items
\* received, has exactly one warning
PaginationWarnsOnTotalMismatch ==
    /\ WarningsPerPageAndVariedTotal
    /\ (/\ page_pc = "returned"
        /\ PageWarningsUpTo(Len(responses)) = 0
        /\ \E total \in ReportedTotals : ReportedTotals = {total} /\ total # Len(all_received_items))
        => Len(warnings) = 1

(***************************************************************************)
(* Pagination: a page request that fails                                   *)
(***************************************************************************)
\* C34: a page request that yields no parsed list raises at that page. The step that fetches it
\* records the response in the response log, under the query of that page, and adds no
\* warning; it is the only way pagination comes to raise RequestException for a request, and
\* after it nothing more happens: no later page is requested and no items are returned
FailedPageRaisesAtOnce ==
    [][/\ page_pc = "running"
       /\ responses' = Append(responses, responses'[Len(responses')])
       /\ responses'[Len(responses')].body = None <=> page_pc' = "request_failed"
       /\ page_pc' = "request_failed" =>
            /\ responses'[Len(responses')].href = ListHref
            /\ responses'[Len(responses')].query = << <<"s", Len(responses) * PageSize>>, <<"l", PageSize>> >>
            /\ warnings' = warnings
            /\ \A i \in 1..Len(responses) : responses[i].body # None]_vars

\* C34 witness: the second page request failed after a first page of two items; two responses
\* are logged, no warning, nothing returned
SecondPageFailed ==
    /\ page_pc = "request_failed"
    /\ Len(responses) = 2
    /\ PageSizes = <<2, -1>>
    /\ responses[2].query = << <<"s", 2>>, <<"l", 2>> >>
    /\ warnings = <<>>

(***************************************************************************)
(* Discovery: the device capability                                        *)
(***************************************************************************)

\* the positions in the log of the requests made to the device capability path
DcapRequests == {j \in 1..Len(responses) : responses[j].href = DcapPath}

\* C35: a discovery action whose plan holds DeviceCapability makes one request to the fixed
\* device capability path, a plain GET without paging parameters, and leaves the bucket with
\* exactly one entry, without a parent, holding what that request answered; whatever the number
\* of discovery actions the bucket never holds more than one entry
DeviceCapabilityIsSingle ==
    /\ Len(get(store, "DeviceCapability")) <= 1
    /\ disc_last # None /\ "DeviceCapability" \in Elems(LastPlan) =>
           /\ Cardinality(DcapRequests) = 1
           /\ \A j \in DcapRequests :
                  /\ IsGet(responses[j])
                  /\ responses[j].body = Some(get(store, "DeviceCapability")[1].resource)
           /\ Len(get(store, "DeviceCapability")) = 1
           /\ get(store, "DeviceCapability")[1].parent = None
           /\ get(store, "DeviceCapability")[1].resource.href = Some(DcapPath)

\* C35 witness: DeviceCapability was discovered again after the server's data changed, and the
\* bucket holds the one new device capability while the end devices of the earlier discovery
\* are still stored
RediscoveredDeviceCapability ==
    /\ disc_last # None
    /\ disc_last[1].resources = <<"DeviceCapability">>
    /\ server.version = 1
    /\ Len(get(store, "DeviceCapability")) = 1
    /\ get(store, "DeviceCapability")[1].resource.body = 1
    /\ get(store, "EndDevice") # <<>>
    /\ get(store, "EndDevice")[1].resource.body = 0

(***************************************************************************)
(* Notification webhooks                                                   *)
(***************************************************************************)

MaxNotificationRequests == 3   \* requests the notification server receives in one run

\* the subscription aliases of the test procedure
Aliases == {"sub1", "sub2"}

\* URI_MANAGE_ENDPOINT_LIST and URI_MANAGE_ENDPOINT of the notification server
URI_MANAGE_ENDPOINT_LIST == <<"manage", "endpoint">>

URI_MANAGE_ENDPOINT(endpoint_id) == <<"manage", "endpoint", endpoint_id>>

NotificationApiResponse(status, body) == [status |-> status, body |-> body]

\* NotificationApiResponse.is_success
NotificationIsSuccess(response) == response.status >= 200 /\ response.status <= 299

\* the JSON bodies the notification server may answer with: an object with the fields of the
\* expected response, an object without them, or a list
JsonObject(fields) == [json |-> "object", fields |-> fields]

JsonBodies(objects) ==
    {JsonObject(o) : o \in objects} \cup {JsonObject(None), [json |-> "list", fields |-> None]}

\* the answers to one request: no answer at all (the connection failed), or a status and a body
NotificationAnswers(objects) ==
    {None} \cup {Some(NotificationApiResponse(status, body)) :
                    status \in {200, 299, 300, 400}, body \in JsonBodies(objects)}

\* CreateEndpointResponse.from_json and CollectEndpointResponse.from_json: the parsed object,
\* or None where parsing raises or yields a list
from_json(body) == IF body.json = "object" /\ body.fields # None THEN body.fields ELSE None

\* the webhook the notification server creates on its n-th creation request
CreateEndpointResponse(n) == [endpoint_id |-> n, fully_qualified_endpoint |-> <<"webhook", n>>]

\* the CollectEndpointResponse objects: notifications missing, empty or holding one notification
CollectEndpointResponses ==
    {[notifications |-> n] : n \in {None, Some(<<>>), Some(<<<<"notification", 1>>>>)}}

\* NotificationsContext and the requests it sent through its session
NotificationsContext(endpoints, requests) == [endpoint_by_sub_alias |-> endpoints, requests |-> requests]

\* what a function of notifications.py came to: the context it left, whether it raised
\* NotificationException, and what it returned
NotificationOutcome(ctx, raised, result) == [ctx |-> ctx, raised |-> raised, result |-> result]

\* notifications_server_request: the request goes out, and a connection failure raises
Requested(ctx, method, path) ==
    [ctx EXCEPT !.requests = Append(@, [method |-> method, path |-> path])]

\* endpoint_by_sub_alias.get(subscription_alias, None)
EndpointOf(endpoints, subscription_alias) ==
    IF subscription_alias \in DOMAIN endpoints THEN Some(endpoints[subscription_alias]) ELSE None

fetch_notification_webhook_for_subscriptionUncached(ctx, subscription_alias, answer) ==
    LET sent == Requested(ctx, "POST", URI_MANAGE_ENDPOINT_LIST)
    IN IF answer = None THEN NotificationOutcome(sent, TRUE, None)
       ELSE IF ~NotificationIsSuccess(answer[1]) THEN NotificationOutcome(sent, TRUE, None)
       ELSE LET new_endpoint == from_json(answer[1].body)
            IN IF new_endpoint = None THEN NotificationOutcome(sent, TRUE, None)
               ELSE NotificationOutcome(
                        [sent EXCEPT !.endpoint_by_sub_alias =
                            [a \in DOMAIN @ \cup {subscription_alias} |->
                                IF a = subscription_alias THEN new_endpoint[1] ELSE @[a]]],
                        FALSE, Some(new_endpoint[1].fully_qualified_endpoint))

fetch_notification_webhook_for_subscription(ctx, subscription_alias, answer) ==
    LET endpoint == EndpointOf(ctx.endpoint_by_sub_alias, subscription_alias)
        sent == Requested(ctx, "POST", URI_MANAGE_ENDPOINT_LIST)
    IN IF endpoint # None
       THEN NotificationOutcome(ctx, FALSE, Some(endpoint[1].fully_qualified_endpoint))
       ELSE IF answer = None THEN NotificationOutcome(sent, TRUE, None)
       ELSE IF ~NotificationIsSuccess(answer[1]) THEN NotificationOutcome(sent, TRUE, None)
       ELSE LET new_endpoint == from_json(answer[1].body)
            IN IF new_endpoint = None THEN NotificationOutcome(sent, TRUE, None)
               ELSE NotificationOutcome(
                        [sent EXCEPT !.endpoint_by_sub_alias =
                            [a \in DOMAIN @ \cup {subscription_alias} |->
                                IF a = subscription_alias THEN new_endpoint[1] ELSE @[a]]],
                        FALSE, Some(new_endpoint[1].fully_qualified_endpoint))

update_notification_webhook_for_subscription(ctx, subscription_alias, enabled, answer) ==
    LET endpoint == EndpointOf(ctx.endpoint_by_sub_alias, subscription_alias)
    IN IF endpoint = None THEN NotificationOutcome(ctx, TRUE, None)
       ELSE LET sent == Requested(ctx, "PUT", URI_MANAGE_ENDPOINT(endpoint[1].endpoint_id))
            IN IF answer = None THEN NotificationOutcome(sent, TRUE, None)
               ELSE IF ~NotificationIsSuccess(answer[1]) THEN NotificationOutcome(sent, TRUE, None)
               ELSE NotificationOutcome(sent, FALSE, None)

collect_notifications_for_subscription(ctx, subscription_alias, answer) ==
    LET endpoint == EndpointOf(ctx.endpoint_by_sub_alias, subscription_alias)
    IN IF endpoint = None THEN NotificationOutcome(ctx, TRUE, None)
       ELSE LET sent == Requested(ctx, "GET", URI_MANAGE_ENDPOINT(endpoint[1].endpoint_id))
            IN IF answer = None THEN NotificationOutcome(sent, TRUE, None)
               ELSE IF ~NotificationIsSuccess(answer[1]) THEN NotificationOutcome(sent, TRUE, None)
               ELSE LET collected_response == from_json(answer[1].body)
                    IN IF collected_response = None THEN NotificationOutcome(sent, TRUE, None)
                       ELSE IF collected_response[1].notifications = None
                       THEN NotificationOutcome(sent, FALSE, Some(<<>>))
                       ELSE NotificationOutcome(sent, FALSE, Some(collected_response[1].notifications[1]))

\* a record of one call, kept to state what the call did: the function, the alias, the
\* subscribed href and resource kind its caller had at hand, whether it raised and its return value
NotificationCall(op, subscription_alias, href, resource, raised, result) ==
    [op |-> op, alias |-> subscription_alias, href |-> href, resource |-> resource,
     raised |-> raised, result |-> result]

\* the number of creation requests the notification server has received
CreationRequests ==
    Cardinality({j \in 1..Len(notification_requests) : notification_requests[j].method = "POST"})

NotificationsNow == NotificationsContext(endpoint_by_sub_alias, notification_requests)

\* the subscription action asks for the webhook of an alias, for some subscribed resource
NotificationFetch ==
    /\ Len(notification_requests) < MaxNotificationRequests
    /\ \E subscription_alias \in Aliases, href \in {<<"edev", 1>>, <<"edev", 2>>},
          resource \in {"EndDevice", "DER"},
          answer \in NotificationAnswers({Some(CreateEndpointResponse(CreationRequests + 1))}) :
       \E r \in {fetch_notification_webhook_for_subscription(NotificationsNow, subscription_alias, answer)} :
          /\ endpoint_by_sub_alias' = r.ctx.endpoint_by_sub_alias
          /\ notification_requests' = r.ctx.requests
          /\ notification_last' = Some(NotificationCall("fetch", subscription_alias, href, resource,
                                                        r.raised, r.result))
    /\ UNCHANGED <<schedulerVars, engineVars, storeVars, planVars, pageVars, trackerVars, discoveryVars,
                   annotations, annotations_last, evaluation, polling_window>>

\* the notifications action collects what the webhook of an alias received
NotificationCollect ==
    /\ Len(notification_requests) < MaxNotificationRequests
    /\ \E subscription_alias \in Aliases,
          answer \in NotificationAnswers({Some(c) : c \in CollectEndpointResponses}) :
       \E r \in {collect_notifications_for_subscription(NotificationsNow, subscription_alias, answer)} :
          /\ endpoint_by_sub_alias' = r.ctx.endpoint_by_sub_alias
          /\ notification_requests' = r.ctx.requests
          /\ notification_last' = Some(NotificationCall("collect", subscription_alias, None, None,
                                                        r.raised, r.result))
    /\ UNCHANGED <<schedulerVars, engineVars, storeVars, planVars, pageVars, trackerVars, discoveryVars,
                   annotations, annotations_last, evaluation, polling_window>>

\* the notifications action enables or disables the webhook of an alias
NotificationUpdate ==
    /\ Len(notification_requests) < MaxNotificationRequests
    /\ \E subscription_alias \in Aliases, enabled \in BOOLEAN, answer \in NotificationAnswers({None}) :
       \E r \in {update_notification_webhook_for_subscription(NotificationsNow, subscription_alias,
                                                              enabled, answer)} :
          /\ endpoint_by_sub_alias' = r.ctx.endpoint_by_sub_alias
          /\ notification_requests' = r.ctx.requests
          /\ notification_last' = Some(NotificationCall("update", subscription_alias, None, None,
                                                        r.raised, r.result))
    /\ UNCHANGED <<schedulerVars, engineVars, storeVars, planVars, pageVars, trackerVars, discoveryVars,
                   annotations, annotations_last, evaluation, polling_window>>

NotificationInit == DiscoveryInit /\ server.devices = <<>>

NotificationNext == NotificationFetch \/ NotificationCollect \/ NotificationUpdate

NotificationSpec == NotificationInit /\ [][NotificationNext]_vars

\* the requests a step sent: those the server has received after it and had not before
SentByStep == SubSeq(notification_requests', Len(notification_requests) + 1, Len(notification_requests'))

\* the call the step made, where the step made one that left a trace
StepCall == notification_last'[1]

\* C36: a fetch for an alias whose endpoint is cached returns the cached endpoint without a
\* request, whatever href and resource kind it is made for; a fetch for an alias without one
\* sends exactly one creation request, and caches and returns the endpoint created where the
\* answer is a success that parses, and raises and caches nothing otherwise; collect and update
\* for an alias without a cached endpoint raise without a request; and an endpoint, once cached,
\* is never replaced or removed, so no alias has a webhook created for it twice
WebhookCreatedOncePerAlias ==
    [][/\ \A a \in DOMAIN endpoint_by_sub_alias :
              a \in DOMAIN endpoint_by_sub_alias' /\ endpoint_by_sub_alias'[a] = endpoint_by_sub_alias[a]
       /\ notification_last' # None
       /\ \A c \in {StepCall}, cached \in {EndpointOf(endpoint_by_sub_alias, StepCall.alias)} :
              /\ \A a \in DOMAIN endpoint_by_sub_alias' \ DOMAIN endpoint_by_sub_alias :
                     a = c.alias /\ c.op = "fetch" /\ ~c.raised
              /\ c.op = "fetch" /\ cached # None =>
                     /\ SentByStep = <<>>
                     /\ ~c.raised
                     /\ c.result = Some(cached[1].fully_qualified_endpoint)
              /\ c.op = "fetch" /\ cached = None =>
                     /\ SentByStep = <<[method |-> "POST", path |-> URI_MANAGE_ENDPOINT_LIST]>>
                     /\ IF c.raised
                        THEN endpoint_by_sub_alias' = endpoint_by_sub_alias
                        ELSE /\ c.alias \in DOMAIN endpoint_by_sub_alias'
                             /\ c.result = Some(endpoint_by_sub_alias'[c.alias].fully_qualified_endpoint)
                             /\ endpoint_by_sub_alias'[c.alias] = CreateEndpointResponse(CreationRequests + 1)
              /\ c.op \in {"collect", "update"} /\ cached = None =>
                     /\ c.raised
                     /\ SentByStep = <<>>
      ]_vars

\* C36 witness: the webhook of sub1 was created for one end device on the first request, a
\* creation for sub2 failed, and a fetch for sub1 made for a DER under another href has returned
\* the webhook of the first request without a third request
CachedWebhookReturnedForOtherHref ==
    /\ notification_last # None
    /\ notification_last[1].op = "fetch"
    /\ notification_last[1].alias = "sub1"
    /\ notification_last[1].href = <<"edev", 2>>
    /\ notification_last[1].resource = "DER"
    /\ notification_last[1].result = Some(<<"webhook", 1>>)
    /\ DOMAIN endpoint_by_sub_alias = {"sub1"}
    /\ [j \in 1..Len(notification_requests) |-> notification_requests[j].method] = <<"POST", "POST">>

(***************************************************************************)
(* The engine: the final result of a step                                  *)
(***************************************************************************)

\* the steps that have a final result
StepsResulted(results) == {results[i].step : i \in DOMAIN results}

\* C37: a step has at most one final result; the result is recorded by the step of the engine
\* that ends the checks of an attempt after which the step is not put back into the scheduler;
\* once a step has a result neither its action nor its checks are invoked again, it is never
\* back in the scheduler, and no recorded result is changed or removed
FinalResultOnceAndLast ==
    [][/\ \A i \in DOMAIN step_results : i \in DOMAIN step_results' /\ step_results'[i] = step_results[i]
       /\ \A i, j \in DOMAIN step_results' : step_results'[i].step = step_results'[j].step => i = j
       /\ \A s \in StepsResulted(step_results) :
              /\ action_calls'[s] = action_calls[s]
              /\ check_calls'[s] = check_calls[s]
              /\ phase'[s] = "idle"
       /\ \A s \in StepsResulted(step_results') :
              \A k \in DOMAIN items' : items'[k].source # s
       /\ \A s \in StepsResulted(step_results') \ StepsResulted(step_results) :
              /\ pc = "checking"
              /\ next_step # None
              /\ next_step[1].source = s
              /\ Len(step_execution_progress') = Len(step_execution_progress) + 1
              /\ step_execution_progress'[Len(step_execution_progress')].step_execution = next_step[1]
      ]_vars

\* C37 witness: step 1 was given its final result at its second attempt, and step 2 has been
\* started since
ResultAfterSecondAttemptThenNextStep ==
    /\ Len(step_results) = 1
    /\ step_results[1].step = 1
    /\ action_calls[1] = 2
    /\ check_calls[1] = 2
    /\ action_calls[2] = 1

(***************************************************************************)
(* The resource store: an upsert under stored children                     *)
(***************************************************************************)

\* the stored resources of every bucket
AllStored(st) == UNION {{st[k][i] : i \in 1..Len(st[k])} : k \in DOMAIN st}

\* the identities of a sequence of stored resources, in order
IdsOf(entries) == [i \in 1..Len(entries) |-> StoredResourceId(entries[i])]

\* the identity of an optional stored resource
IdOfOptional(found) == IF found = None THEN None ELSE Some(StoredResourceId(found[1]))

\* the kinds of the stored resources on the chain of parents of a stored resource
RECURSIVE ChainKinds(_)
ChainKinds(sr) == IF sr.parent = None THEN {} ELSE {sr.parent[1].type} \cup ChainKinds(sr.parent[1])

\* C38: an upsert of a kind for an identity the bucket already holds puts the new entry at the
\* position of the old one under the same identity and leaves every other entry of every bucket
\* as it was; every lookup of descendants returns afterwards the entries under the same
\* identities in the same order, every lookup of an ancestor of a stored resource, for a kind on
\* its chain of parents, the entry of the same identity, and a lookup that led to the replaced
\* entry now returns the new entry with its payload. A lookup leaves the store as it is, so the
\* lookups before and after an upsert are compared for the upserts that follow the construction
\* of the store, another upsert or a clear.
UpsertKeepsLineage ==
    [][/\ (IF store_last' = None THEN FALSE
           ELSE store_last'[1].op \in {"get_descendents_of", "get_ancestor_of"}) => store' = store
       /\ (/\ store_last' # store_last
           /\ IF store_last' = None THEN FALSE ELSE store_last'[1].op = "upsert_resource"
           /\ SameIdentity(get(store, store_last'[1].type), store_last'[1].result[1]) # {})
          => \A new \in {store_last'[1].result[1]} :
             \A at \in SameIdentity(get(store, new.type), new) :
                 /\ Len(get(store', new.type)) = Len(get(store, new.type))
                 /\ get(store', new.type)[at] = new
                 /\ \A k \in DOMAIN store' : \A i \in 1..Len(get(store', k)) :
                        k # new.type \/ i # at => get(store', k)[i] = get(store, k)[i]
                 /\ \A k \in DOMAIN store : Len(get(store', k)) = Len(get(store, k))
                 /\ (IF store_last = None THEN TRUE
                     ELSE store_last[1].op \in {"upsert_resource", "clear_resource"}) =>
                        /\ \A k \in LineageKinds, of \in AllStored(store) :
                               IdsOf(get_descendents_of(store', k, of))
                                   = IdsOf(get_descendents_of(store, k, of))
                        /\ \A of \in AllStored(store) : \A k \in ChainKinds(of) :
                               \A after \in {get_ancestor_of(store', k, StoredResourceId(of))} :
                                   /\ IdOfOptional(after)
                                          = IdOfOptional(get_ancestor_of(store, k, StoredResourceId(of)))
                                   /\ IdOfOptional(after) = Some(StoredResourceId(new)) => after = Some(new)
      ]_vars

\* C38 witness: the end device list was replaced by one with another payload after an end device
\* had been stored under it, and the lookup of the list above that end device has returned the
\* new list
AncestorWithNewPayload ==
    /\ store_last # None
    /\ store_last[1].op = "get_ancestor_of"
    /\ store_last[1].type = "EndDeviceList"
    /\ store_last[1].of.type = "EndDevice"
    /\ store_last[1].result # None
    /\ store_last[1].result[1].resource.body # store_last[1].of.parent[1].resource.body
    /\ store_last[1].result = Some(get(store, "EndDeviceList")[1])
    /\ Len(get(store, "EndDeviceList")) = 1

(***************************************************************************)
(* Discovery: the parents of what was discovered                           *)
(***************************************************************************)

\* the entries of the bucket of a kind whose parent is not an entry of the bucket of the parent kind
Orphans(kind) ==
    {i \in 1..Len(get(store, kind)) :
        IF get(store, kind)[i].parent = None THEN TRUE
        ELSE get(store, kind)[i].parent[1] \notin Elems(ParentsOf(kind))}

\* C39: after a discovery action that raised nothing, every stored resource of a kind of its plan
\* other than the root has a parent, and that parent is an entry of the bucket of the parent kind
\* as the store holds it now
DiscoveredUnderStoredParents ==
    (IF disc_last = None THEN FALSE ELSE ~disc_last[1].raised) =>
        \A k \in Elems(LastPlan) \ {"DeviceCapability"} : Orphans(k) = {}

\* C39 witness: DERList was discovered again after the server's data changed: the end devices
\* were replaced and every DER list is under one of the new ones, while the DERs of the earlier
\* discovery, a kind outside the plan, still refer to a list that is no longer stored
RediscoveredListsUnderNewDevices ==
    /\ disc_last # None
    /\ disc_last[1].resources = <<"DERList">>
    /\ server.version = 1
    /\ get(store, "DERList") # <<>>
    /\ \A i \in 1..Len(get(store, "DERList")) : get(store, "DERList")[i].parent[1].resource.body = 1
    /\ Orphans("DERList") = {}
    /\ get(store, "DER") # <<>>
    /\ Orphans("DER") # {}

(***************************************************************************)
(* Discovery: a request that fails                                         *)
(***************************************************************************)

\* the servers of the failing specification: every end device links a DER list that reports its
\* href and holds one DER, and no request fails yet
FailingServers ==
    {[devices |-> [i \in 1..n |-> DeviceShape("set", "set", 1)], version |-> 0, failing |-> {}] :
        n \in 1..MaxDevices}

\* the requests a server may begin to fail: the GET of a resource, or the pages of a list
FailableRequests(srv) ==
    {<<DcapPath, FALSE>>, <<<<"edev">>, FALSE>>, <<<<"edev">>, TRUE>>}
    \cup {<<<<"edev", i, "der">>, paged>> : i \in 1..Len(srv.devices), paged \in BOOLEAN}

\* the server begins to answer one of its requests with a status that is no success
ServerBreaks ==
    /\ DiscoveryRunning
    /\ server.failing = {}
    /\ \E request \in FailableRequests(server) : server' = [server EXCEPT !.failing = {request}]
    /\ UNCHANGED <<schedulerVars, engineVars, storeVars, planVars, pageVars, trackerVars, disc_last, contextVars>>

FailingDiscoveryInit ==
    /\ items = <<>>
    /\ now = BaseTime
    /\ last = Call("init", BaseTime, <<>>, None)
    /\ EngineIdleInit
    /\ store = EmptyStore
    /\ store_last = None
    /\ target_resources = <<>>
    /\ plan_calls = <<>>
    /\ page_pc = "off"
    /\ start = 0
    /\ pages_requested = 0
    /\ every_all_value = <<>>
    /\ all_received_items = <<>>
    /\ max_pages_requested = 0
    /\ warnings = <<>>
    /\ responses = <<>>
    /\ server \in FailingServers
    /\ disc_last = None
    /\ ContextIdleInit

FailingDiscoveryNext == ActionDiscovery \/ ServerUpdates \/ ServerBreaks

FailingDiscoverySpec == FailingDiscoveryInit /\ [][FailingDiscoveryNext]_vars

\* the positions in the log of the requests that failed
FailedRequests == {j \in 1..Len(responses) : responses[j].body = None}

\* the kind a discovery action that raised was populating when its request failed
FailingKind == disc_last[1].reached[Len(disc_last[1].reached)]

\* a discovery action raises exactly when one of its requests failed, and that request is its
\* last; the kinds it went through are the plan up to the kind the failed request was for; the
\* bucket of every later kind of the plan is as the action found it and no request was made for
\* it; and the bucket of every kind it went through before the failing one holds exactly what
\* the requests of this action fetched for the kind
StopsAtFailedRequest ==
    \A plan \in {LastPlan}, reached \in {disc_last[1].reached} :
        /\ disc_last[1].raised <=> FailedRequests # {}
        /\ FailedRequests \subseteq {Len(responses)}
        /\ Len(reached) <= Len(plan)
        /\ reached = SubSeq(plan, 1, Len(reached))
        /\ ~disc_last[1].raised => reached = plan
        /\ disc_last[1].raised =>
               /\ reached # <<>>
               /\ KindFetched(responses[Len(responses)]) = FailingKind
        /\ \A k \in Elems(plan) \ Elems(reached) :
               /\ get(store, k) = get(disc_last[1].others, k)
               /\ \A j \in 1..Len(responses) : KindFetched(responses[j]) # k
        /\ \A k \in Elems(reached) :
               \/ (disc_last[1].raised /\ k = FailingKind)
               \/ ResourcesOf(get(store, k)) = FetchedOf(responses, k, Len(responses))

\* C40 as stated: a request that fails makes the discovery action raise, no later kind of the
\* plan is fetched or cleared, the earlier kinds keep what was newly discovered, and the bucket
\* of the failing kind holds only what this action appended before the failure, whatever it
\* held before
FailingKindHoldsThisPassOnly ==
    disc_last # None =>
        /\ StopsAtFailedRequest
        /\ disc_last[1].raised =>
               ResourcesOf(get(store, FailingKind)) = FetchedOf(responses, FailingKind, Len(responses))

\* what a discovery action left, found being the bucket of DeviceCapability as it found it
LeftByDiscovery(found) ==
    /\ disc_last # None
    /\ StopsAtFailedRequest
    /\ disc_last[1].raised =>
           IF FailingKind = "DeviceCapability"
           THEN get(store, "DeviceCapability") = found
           ELSE ResourcesOf(get(store, FailingKind)) = FetchedOf(responses, FailingKind, Len(responses))

\* C40 amended: a request that fails makes the discovery action raise, no later kind of the plan
\* is fetched or cleared, the earlier kinds keep what was newly discovered, and the bucket of
\* the failing kind holds only what this action appended before the failure, whatever it held
\* before - unless the failing kind is DeviceCapability, whose bucket is not cleared before its
\* request and is left as the action found it
DiscoveryStopsAtFailure ==
    [][server' = server =>
          \A found \in {get(store, "DeviceCapability")} : LeftByDiscovery(found)']_vars

\* C40 witness: a discovery of DERList after the server's data changed raised at the list of the
\* second end device: both end devices are the new ones, the bucket of DERList holds the one new
\* list of the first device and neither of the two lists it held, and the DERs, a later kind,
\* are those of the earlier discovery
RaisedAtSecondList ==
    /\ disc_last # None
    /\ disc_last[1].raised
    /\ disc_last[1].resources = <<"DER">>
    /\ disc_last[1].reached = <<"DeviceCapability", "EndDeviceList", "EndDevice", "DERList">>
    /\ server.version = 1
    /\ Len(get(store, "EndDevice")) = 2
    /\ \A i \in 1..2 : get(store, "EndDevice")[i].resource.body = 1
    /\ Len(get(store, "DERList")) = 1
    /\ get(store, "DERList")[1].resource.body = 1
    /\ get(store, "DERList")[1].resource.href = Some(<<"edev", 1, "der">>)
    /\ Len(get(store, "DER")) = 2
    /\ \A i \in 1..2 : get(store, "DER")[i].resource.body = 0

====
